---- MODULE Spec2Model ----
(***************************************************************************)
(* A model of the Canvas assignment tools (canvas_mcp.py), of the intent   *)
(* parser of the terminal agent (canvas_agent.py) and of the command-line  *)
(* bridge (canvas_cli.py).                                                 *)
(*                                                                         *)
(* Time is counted in hours.  The instant at which a tool is called is     *)
(* hour 0; a wall-clock reading in a zone whose UTC offset is o shows      *)
(* instant + o.  A date-time string is modelled by its wall-clock field    *)
(* and its zone suffix, which is what datetime.fromisoformat reads and     *)
(* what datetime.isoformat prints.                                         *)
(***************************************************************************)
EXTENDS Integers, Sequences, FiniteSets, TLC

VARIABLES
    apiKey,      \* CANVAS_API_KEY is set (canvas_mcp.py:13)
    localOff,    \* UTC offset of the machine's local zone, in hours
    pc,          \* position of the running tool call
    tool,        \* the tool being run
    daysAhead,   \* its days_ahead argument
    courseArg,   \* its course_id argument (get_assignments_by_course)
    courses,     \* the course records the tool iterates over
    idx,         \* index of the next course of that loop
    today,       \* the local variable today
    endDate,     \* the local variable end_date
    collected,   \* all_assignments / filtered_assignments / overdue_assignments
    resp,        \* the dictionary returned to the caller, or the raised exception
    faults,      \* history: the steps of this call that failed
    unseenCourses, \* history: courses the server holds beyond the first page
    unseen,      \* history: assignments the server holds beyond a first page
    clock,       \* seconds since the process started (request helper)
    httpLog,     \* history: the GET requests issued, with their time
    lastCall,    \* the latest call of make_canvas_request and how it ended
    query,       \* user_input of CanvasAgent.parse_user_intent
    intent,      \* the dictionary parse_user_intent returned
    argv,        \* command line of canvas_cli
    cliOut,      \* what canvas_cli main printed, its exit status, the tool it ran
    invoked,     \* the call of a tool of the complete suite: its name, arguments, inputs
    result       \* what that call returned, or the exception it raised

toolVars == <<apiKey, localOff, pc, tool, daysAhead, courseArg, courses, idx,
              today, endDate, collected, resp, faults, unseenCourses, unseen>>

requestVars == <<clock, httpLog, lastCall>>
agentVars == <<query, intent>>
cliVars == <<argv, cliOut>>

suiteVars == <<invoked, result>>

vars == <<toolVars, requestVars, agentVars, cliVars, suiteVars>>

----------------------------------------------------------------------------
(* Bounds of the model. *)

\* Records a listing request returns at most (per_page); 100 in the source,
\* scaled down so a listing longer than one page stays small.
PerPage == 2
\* Longest listing the server holds (one more than a page).
MaxListing == 3
\* The values of days_ahead tried.
MaxDaysAhead == 1

\* Hours in a day (timedelta(days=1)).
HoursPerDay == 24

Min(a, b) == IF a < b THEN a ELSE b

----------------------------------------------------------------------------
(* Date-time values. *)

Naive == "naive"

\* UTC offset, in hours, of a zone suffix.
Offset(tz) ==
    CASE tz = "Z" -> 0
      [] tz = "+00:00" -> 0
      [] tz = "+01:00" -> 1
      [] tz = "-01:00" -> -1

\* The instant an aware datetime denotes.
Instant(dt) == dt.wall - Offset(dt.tz)

\* due_at.replace('Z', '+00:00')
ReplaceZ(tz) == IF tz = "Z" THEN "+00:00" ELSE tz

\* datetime.fromisoformat(due_at.replace('Z', '+00:00')): the parsed datetime;
\* raises ValueError on a string that is no ISO date.
fromisoformat(due_at) == [wall |-> due_at.wall, tz |-> ReplaceZ(due_at.tz)]

\* datetime.now(): the local wall clock, without zone.
datetime_now(off) == [wall |-> 0 + off, tz |-> Naive]

\* today.replace(tzinfo=due_date.tzinfo): the same wall clock, relabelled.
replace_tzinfo(dt, tz) == [wall |-> dt.wall, tz |-> tz]

\* today + timedelta(days=days_ahead)
plus_days(dt, d) == [wall |-> dt.wall + d * HoursPerDay, tz |-> dt.tz]

\* (a - b).days for aware datetimes: whole days, rounded down.
days_between(a, b) == (Instant(a) - Instant(b)) \div HoursPerDay

\* a <= b and a < b on aware datetimes compare instants.
dt_le(a, b) == Instant(a) <= Instant(b)
dt_lt(a, b) == Instant(a) < Instant(b)

\* due_date.isoformat(): wall-clock field followed by the offset suffix.
isoformat(dt) == [wall |-> dt.wall, tz |-> dt.tz]

\* Order of the suffixes as strings: '+' (43) sorts before '-' (45).
SuffixRank(tz) ==
    CASE tz = "+00:00" -> 0
      [] tz = "+01:00" -> 1
      [] tz = "-01:00" -> 2

\* a < b on the strings isoformat prints (equal-width wall-clock fields).
str_lt(a, b) ==
    \/ a.wall < b.wall
    \/ a.wall = b.wall /\ SuffixRank(a.tz) < SuffixRank(b.tz)

----------------------------------------------------------------------------
(* What the Canvas server holds and what one request returns. *)

\* A dictionary key that is absent.
NoKey == "<absent>"

Null == [kind |-> "null", wall |-> 0, tz |-> "Z"]
Bad == [kind |-> "bad", wall |-> 0, tz |-> "Z"]
Iso(w, z) == [kind |-> "iso", wall |-> w, tz |-> z]

\* The due_at values of the assignments the server may hold: none, a string
\* that is no date, a date before the instant of the call and two dates
\* after it in zones east and west of UTC.
DuePast == Iso(-1, "Z")
DueWest == Iso(1, "-01:00")
DueEast == Iso(2, "+01:00")
DueAts == {Null, Bad, DuePast, DueWest, DueEast}

\* Assignment records without their id: the name key may be absent.
AssignmentKinds ==
    {[name |-> "hw", due_at |-> d] : d \in DueAts}
        \cup {[name |-> NoKey, due_at |-> DueWest]}

\* The records tried beyond the first page of an assignment listing.
TailKinds == {[name |-> "hw", due_at |-> d] : d \in {DuePast, DueWest}}

\* Course records without their id: the name may be empty.
CourseKinds == {[name |-> "CS"], [name |-> ""]}

SeqsUpTo(S, n) == UNION {[1..k -> S] : k \in 0..n}

\* The id of a record is its position in the listing.
WithIds(kinds) ==
    [i \in 1..Len(kinds) |-> [id |-> i] @@ kinds[i]]

\* The listings a server may hold: a first page and, behind a full first
\* page, further records.
Listings(kinds, tail) ==
    {WithIds(p \o t) : p \in SeqsUpTo(kinds, PerPage),
                       t \in SeqsUpTo(tail, MaxListing - PerPage)}
        \ {WithIds(p \o t) : p \in SeqsUpTo(kinds, PerPage - 1),
                             t \in SeqsUpTo(tail, MaxListing - PerPage) \ {<<>>}}

AssignmentListings == Listings(AssignmentKinds, TailKinds)
CourseListings == Listings(CourseKinds, {[name |-> "CS"]})

\* A listing request carries per_page and follows no next-page link: the
\* records it returns are the first page of the listing.
FirstPage(full) == SubSeq(full, 1, Min(Len(full), PerPage))
Beyond(full) == SubSeq(full, Min(Len(full), PerPage) + 1, Len(full))

\* How an HTTP GET can end: a 200 response, another status, no response.
HttpOutcomes == {"ok", "status_error", "network_error"}

\* What the server can hold when a GET ends as http: only a 200 response
\* carries a listing.
Answers(http, listings) == IF http = "ok" THEN listings ELSE {<<>>}

\* The keyword parameters make_canvas_request declares.
RequestParams == {"endpoint", "params"}

\* make_canvas_request called with keywords kw when the GET ends as http and
\* the server's answer is payload.
make_canvas_request(kw, key, http, payload) ==
    IF ~(kw \subseteq RequestParams)
    THEN [raised |-> "TypeError", value |-> <<>>, get |-> FALSE]
    ELSE IF ~key
    THEN [raised |-> "ValueError", value |-> <<>>, get |-> FALSE]
    ELSE IF http = "network_error"
    THEN [raised |-> "ConnectError", value |-> <<>>, get |-> TRUE]
    ELSE IF http = "status_error"
    THEN [raised |-> "HTTPStatusError", value |-> <<>>, get |-> TRUE]
    ELSE [raised |-> "", value |-> payload, get |-> TRUE]

----------------------------------------------------------------------------
(* The loop over the assignments of one listing. *)

ToolNames ==
    {"get_upcoming_assignments", "get_assignments_by_course",
     "get_overdue_assignments"}

\* The date test of tool t.
InRange(t, due_date, td, ed) ==
    IF t = "get_overdue_assignments"
    THEN dt_lt(due_date, td)
    ELSE dt_le(td, due_date) /\ dt_le(due_date, ed)

\* The assignment_info dictionary of tool t (the fields copied unchanged from
\* the API record are left out).
assignment_info(t, course, a, due_date, td) ==
    IF t = "get_overdue_assignments"
    THEN [course_name |-> course.name, course_id |-> course.id,
          assignment_name |-> a.name, assignment_id |-> a.id,
          due_date |-> isoformat(due_date),
          days_overdue |-> days_between(td, due_date)]
    ELSE IF t = "get_upcoming_assignments"
    THEN [course_name |-> course.name, course_id |-> course.id,
          assignment_name |-> a.name, assignment_id |-> a.id,
          due_date |-> isoformat(due_date),
          days_until_due |-> days_between(due_date, td)]
    ELSE [assignment_name |-> a.name, assignment_id |-> a.id,
          due_date |-> isoformat(due_date),
          days_until_due |-> days_between(due_date, td)]

\* One iteration of "for assignment in assignments" on record a, from the
\* loop state st = [today, end_date, out, raised, faults].
process_assignment(t, course, a, st) ==
    IF a.due_at.kind = "null"
    THEN st
    ELSE IF a.due_at.kind = "bad"
    THEN st
    ELSE
        LET due_date == fromisoformat(a.due_at)
            td == IF st.today.tz = Naive
                  THEN replace_tzinfo(st.today, due_date.tz) ELSE st.today
            ed == IF st.end_date.tz = Naive
                  THEN replace_tzinfo(st.end_date, due_date.tz) ELSE st.end_date
            st1 == [st EXCEPT !.today = td, !.end_date = ed]
        IN  IF ~InRange(t, due_date, td, ed)
            THEN st1
            ELSE IF a.name = NoKey
            THEN [st1 EXCEPT !.raised = "KeyError",
                             !.faults = @ \cup {"malformed_record"}]
            ELSE [st1 EXCEPT !.out =
                      Append(@, assignment_info(t, course, a, due_date, td))]

RECURSIVE process_assignments(_, _, _, _, _)
process_assignments(t, course, page, i, st) ==
    IF i > Len(page) \/ st.raised # ""
    THEN st
    ELSE process_assignments(t, course, page, i + 1,
                             process_assignment(t, course, page[i], st))

----------------------------------------------------------------------------
(* list.sort(key=lambda x: x['due_date']): a stable sort on the strings. *)

RECURSIVE insert_sorted(_, _)
insert_sorted(s, x) ==
    IF s = <<>> THEN <<x>>
    ELSE IF str_lt(x.due_date, s[Len(s)].due_date)
    THEN Append(insert_sorted(SubSeq(s, 1, Len(s) - 1), x), s[Len(s)])
    ELSE Append(s, x)

RECURSIVE sort_by_due_date(_)
sort_by_due_date(s) ==
    IF s = <<>> THEN <<>>
    ELSE insert_sorted(sort_by_due_date(SubSeq(s, 1, Len(s) - 1)), s[Len(s)])

----------------------------------------------------------------------------
(* The three tools. *)

\* The course_id arguments tried.
CourseIdArgs == {1, 2}

\* UTC offsets of the zones the machine may run in.
LocalOffsets == {-1, 0, 1}

\* The exceptions of the model; each is a subclass of Exception.
ExceptionClasses ==
    {"TypeError", "ValueError", "ConnectError", "HTTPStatusError", "KeyError"}

NoResponse == [pending |-> TRUE]
NoDate == [wall |-> 0, tz |-> "unset"]

\* A handler that catches HTTP status errors only (what "except Exception"
\* must not be narrowed to).
except_HTTPStatusError(e) ==
    IF e = "HTTPStatusError"
    THEN [success |-> FALSE, error |-> e, assignments |-> <<>>]
    ELSE [propagated |-> e]

\* "except Exception as e: return {...}" around the body of each tool.
except_Exception(e) ==
    IF e \in ExceptionClasses
    THEN [success |-> FALSE, error |-> e, assignments |-> <<>>]
    ELSE [propagated |-> e]

\* The dictionary a tool returns after its loop.
success_response(t, td, ed, out, course) ==
    LET sorted == sort_by_due_date(out)
    IN  IF t = "get_upcoming_assignments"
        THEN [success |-> TRUE, total_assignments |-> Len(sorted),
              date_range |-> <<td.wall \div HoursPerDay, ed.wall \div HoursPerDay>>,
              assignments |-> sorted]
        ELSE IF t = "get_overdue_assignments"
        THEN [success |-> TRUE, total_overdue |-> Len(sorted),
              assignments |-> sorted]
        ELSE [success |-> TRUE, course_name |-> course.name,
              course_id |-> course.id, total_assignments |-> Len(sorted),
              assignments |-> sorted]

\* Which failure a raised exception is, for the history.
FaultOf(e, step) ==
    IF e = "ValueError" THEN "missing_api_key" ELSE step

\* A caller invokes tool t; today and end_date are computed first, except in
\* get_overdue_assignments, which reads the clock after listing the courses.
Call(t, d, c) ==
    /\ UNCHANGED <<requestVars, agentVars, cliVars, suiteVars>>
    /\ pc = "idle"
    /\ tool' = t
    /\ daysAhead' = IF t = "get_overdue_assignments" THEN 0 ELSE d
    /\ courseArg' = IF t = "get_assignments_by_course" THEN c ELSE 0
    /\ today' = IF t = "get_overdue_assignments" THEN NoDate
                ELSE datetime_now(localOff)
    /\ endDate' = IF t = "get_overdue_assignments" THEN NoDate
                  ELSE plus_days(datetime_now(localOff), d)
    /\ pc' = IF t = "get_assignments_by_course" THEN "course" ELSE "courses"
    /\ UNCHANGED <<apiKey, localOff, courses, idx, collected, resp, faults,
                   unseenCourses, unseen>>

\* make_canvas_request("/courses", ...) of get_upcoming_assignments and
\* get_overdue_assignments.
FetchCourses(http, full) ==
    /\ UNCHANGED <<requestVars, agentVars, cliVars, suiteVars>>
    /\ pc = "courses"
    /\ LET r == make_canvas_request({"endpoint", "params"}, apiKey, http,
                                    FirstPage(full))
       IN  IF r.raised # ""
           THEN /\ resp' = except_Exception(r.raised)
                /\ faults' = faults \cup {FaultOf(r.raised, "course_listing")}
                /\ pc' = "done"
                /\ UNCHANGED <<courses, idx, today, unseenCourses>>
           ELSE /\ courses' = r.value
                /\ idx' = 1
                /\ unseenCourses' = Beyond(full)
                /\ today' = IF tool = "get_overdue_assignments"
                            THEN datetime_now(localOff) ELSE today
                /\ pc' = "loop"
                /\ UNCHANGED <<resp, faults>>
    /\ UNCHANGED <<apiKey, localOff, tool, daysAhead, courseArg, endDate,
                   collected, unseen>>

\* A loop that has no handler of its own around the assignments request.
skips_nothing(e) == e = "<none>"

\* "except httpx.HTTPStatusError: continue" around the assignments request
\* of one course: whether exception e only ends that course.
skips_course(e) == e = "HTTPStatusError"

\* One iteration of "for course in courses".
CourseStep(http, full) ==
    /\ UNCHANGED <<requestVars, agentVars, cliVars, suiteVars>>
    /\ pc = "loop"
    /\ idx <= Len(courses)
    /\ LET course == courses[idx]
           r == make_canvas_request({"endpoint", "params"}, apiKey, http,
                                    FirstPage(full))
           st0 == [today |-> today, end_date |-> endDate, out |-> collected,
                   raised |-> "", faults |-> faults]
           st == process_assignments(tool, course, r.value, 1, st0)
           fault == IF r.raised = "HTTPStatusError" THEN "course_fetch_status"
                    ELSE FaultOf(r.raised, "course_fetch")
       IN  IF course.name = ""
           THEN /\ idx' = idx + 1
                /\ UNCHANGED <<pc, today, endDate, collected, resp, faults, unseen>>
           ELSE IF skips_course(r.raised)
           THEN /\ idx' = idx + 1
                /\ faults' = faults \cup {fault}
                /\ UNCHANGED <<pc, today, endDate, collected, resp, unseen>>
           ELSE IF r.raised # ""
           THEN /\ resp' = except_Exception(r.raised)
                /\ faults' = faults \cup {fault}
                /\ pc' = "done"
                /\ UNCHANGED <<idx, today, endDate, collected, unseen>>
           ELSE /\ today' = st.today
                /\ endDate' = st.end_date
                /\ collected' = st.out
                /\ faults' = st.faults
                /\ unseen' = unseen \o
                       [i \in 1..Len(Beyond(full)) |->
                           [course_id |-> course.id, a |-> Beyond(full)[i]]]
                /\ IF st.raised # ""
                   THEN /\ resp' = except_Exception(st.raised)
                        /\ pc' = "done"
                        /\ idx' = idx
                   ELSE /\ idx' = idx + 1
                        /\ UNCHANGED <<pc, resp>>
    /\ UNCHANGED <<apiKey, localOff, tool, daysAhead, courseArg, courses,
                   unseenCourses>>

\* After the loop: sort and return.
Finish ==
    /\ UNCHANGED <<requestVars, agentVars, cliVars, suiteVars>>
    /\ pc = "loop"
    /\ idx > Len(courses)
    /\ resp' = success_response(tool, today, endDate, collected, <<>>)
    /\ pc' = "done"
    /\ UNCHANGED <<apiKey, localOff, tool, daysAhead, courseArg, courses, idx,
                   today, endDate, collected, faults, unseenCourses, unseen>>

\* make_canvas_request(f"/courses/{course_id}") of get_assignments_by_course;
\* the record may lack its name.
FetchCourse(http, name) ==
    /\ UNCHANGED <<requestVars, agentVars, cliVars, suiteVars>>
    /\ pc = "course"
    /\ LET r == make_canvas_request({"endpoint"}, apiKey, http,
                                    <<[id |-> courseArg, name |-> name]>>)
       IN  IF r.raised # ""
           THEN /\ resp' = except_Exception(r.raised)
                /\ faults' = faults \cup {FaultOf(r.raised, "course_fetch")}
                /\ pc' = "done"
                /\ UNCHANGED courses
           ELSE /\ courses' = r.value
                /\ pc' = "assignments"
                /\ UNCHANGED <<resp, faults>>
    /\ UNCHANGED <<apiKey, localOff, tool, daysAhead, courseArg, idx, today,
                   endDate, collected, unseenCourses, unseen>>

\* The assignments request of get_assignments_by_course, its loop, the sort
\* and the return.
FetchAssignments(http, full) ==
    /\ UNCHANGED <<requestVars, agentVars, cliVars, suiteVars>>
    /\ pc = "assignments"
    /\ LET course == courses[1]
           r == make_canvas_request({"endpoint", "params"}, apiKey, http,
                                    FirstPage(full))
           st0 == [today |-> today, end_date |-> endDate, out |-> collected,
                   raised |-> "", faults |-> faults]
           st == process_assignments(tool, course, r.value, 1, st0)
       IN  IF r.raised # ""
           THEN /\ resp' = except_Exception(r.raised)
                /\ faults' = faults \cup {FaultOf(r.raised, "course_fetch")}
                /\ UNCHANGED <<today, endDate, collected, unseen>>
           ELSE /\ today' = st.today
                /\ endDate' = st.end_date
                /\ collected' = st.out
                /\ unseen' = unseen \o
                       [i \in 1..Len(Beyond(full)) |->
                           [course_id |-> course.id, a |-> Beyond(full)[i]]]
                /\ IF st.raised # ""
                   THEN /\ resp' = except_Exception(st.raised)
                        /\ faults' = st.faults
                   ELSE IF course.name = NoKey
                   THEN /\ resp' = except_Exception("KeyError")
                        /\ faults' = st.faults \cup {"malformed_record"}
                   ELSE /\ resp' = success_response(tool, st.today, st.end_date,
                                                    st.out, course)
                        /\ faults' = st.faults
    /\ pc' = "done"
    /\ UNCHANGED <<apiKey, localOff, tool, daysAhead, courseArg, courses, idx,
                   unseenCourses>>

\* The caller has the response; the next call starts afresh.
Return ==
    /\ UNCHANGED <<requestVars, agentVars, cliVars, suiteVars>>
    /\ pc = "done"
    /\ pc' = "idle"
    /\ tool' = ""
    /\ daysAhead' = 0
    /\ courseArg' = 0
    /\ courses' = <<>>
    /\ idx' = 0
    /\ today' = NoDate
    /\ endDate' = NoDate
    /\ collected' = <<>>
    /\ resp' = NoResponse
    /\ faults' = {}
    /\ unseenCourses' = <<>>
    /\ unseen' = <<>>
    /\ UNCHANGED <<apiKey, localOff>>

\* No tool call is running.
ToolIdle ==
    /\ pc = "idle"
    /\ tool = ""
    /\ daysAhead = 0
    /\ courseArg = 0
    /\ courses = <<>>
    /\ idx = 0
    /\ today = NoDate
    /\ endDate = NoDate
    /\ collected = <<>>
    /\ resp = NoResponse
    /\ faults = {}
    /\ unseenCourses = <<>>
    /\ unseen = <<>>

----------------------------------------------------------------------------
(* The request helper over time, as the study and grade tools call it. *)

\* Seconds the clock advances in one step, and where the model stops it.
TickSeconds == 150
MaxClock == 600
\* Requests issued at most.
MaxRequests == 3
\* cache_ttl of the short-lived requests of the study and grade tools.
CacheTtl == 300

Endpoints == {"/courses/1", "/courses/1/assignments"}
NoCall == [endpoint |-> "", kw |-> {}, at |-> 0, raised |-> "", get |-> FALSE]

RequestInit ==
    /\ clock = 0
    /\ httpLog = <<>>
    /\ lastCall = NoCall

Tick ==
    /\ clock + TickSeconds <= MaxClock
    /\ clock' = clock + TickSeconds
    /\ UNCHANGED <<httpLog, lastCall, toolVars, agentVars, cliVars, suiteVars>>

\* One call make_canvas_request(endpoint, **kw): every accepted call with a
\* key issues a GET; nothing is kept between calls.
Request(endpoint, kw, http) ==
    /\ pc = "idle"
    /\ Len(httpLog) < MaxRequests
    /\ LET r == make_canvas_request(kw, apiKey, http, <<>>)
       IN  /\ lastCall' = [endpoint |-> endpoint, kw |-> kw, at |-> clock,
                           raised |-> r.raised, get |-> r.get]
           /\ httpLog' = IF r.get
                         THEN Append(httpLog, [endpoint |-> endpoint, at |-> clock,
                                               cached |-> "cache_ttl" \in kw])
                         ELSE httpLog
    /\ UNCHANGED <<clock, toolVars, agentVars, cliVars, suiteVars>>

\* The keyword sets of the calls: canvas_mcp's own and the cached ones.
CallShapes == {{"endpoint"}, {"endpoint", "params"}, {"endpoint", "cache_ttl"},
               {"endpoint", "params", "cache_ttl"}}

NextRequest ==
    \/ Tick
    \/ \E e \in Endpoints, kw \in CallShapes, http \in HttpOutcomes : Request(e, kw, http)

----------------------------------------------------------------------------
(* CanvasAgent.parse_user_intent.  A string is a sequence of characters. *)

\* Words a query is made of at most.
MaxWords == 3

W_show == <<"S", "h", "o", "w">>
W_me == <<"m", "e">>
W_overdue == <<"o", "v", "e", "r", "d", "u", "e">>
W_assignments == <<"a", "s", "s", "i", "g", "n", "m", "e", "n", "t", "s">>
W_late == <<"l", "a", "t", "e">>
W_missed == <<"m", "i", "s", "s", "e", "d">>
W_work == <<"w", "o", "r", "k">>
W_course == <<"c", "o", "u", "r", "s", "e">>
W_Course == <<"C", "o", "u", "r", "s", "e">>
W_due == <<"d", "u", "e">>
W_in == <<"i", "n">>
W_homework == <<"h", "o", "m", "e", "w", "o", "r", "k">>
W_upcoming == <<"u", "p", "c", "o", "m", "i", "n", "g">>
W_what == <<"W", "h", "a", "t">>
W_are == <<"a", "r", "e">>
W_12345q == <<"1", "2", "3", "4", "5", "?">>
W_7 == <<"7">>
W_40 == <<"4", "0">>
W_course7 == <<"c", "o", "u", "r", "s", "e", "7">>
W_courses == <<"c", "o", "u", "r", "s", "e", "s">>

Space == <<" ">>

RECURSIVE Join(_)
Join(ws) ==
    IF ws = <<>> THEN <<>>
    ELSE IF Len(ws) = 1 THEN ws[1]
    ELSE ws[1] \o Space \o Join(Tail(ws))

\* The examples run_interactive prints.
ExampleOverdue == Join(<<W_show, W_me, W_overdue, W_assignments>>)
ExampleCourse ==
    Join(<<W_what, W_assignments, W_are, W_due, W_in, W_course, W_12345q>>)

Vocabulary ==
    {W_overdue, W_assignments, W_late, W_missed, W_work, W_course, W_Course,
     W_7, W_40, W_course7, W_courses}

\* The queries tried: the examples and every query of up to MaxWords words.
Queries ==
    {ExampleOverdue, ExampleCourse}
        \cup {Join(ws) : ws \in UNION {[1..n -> Vocabulary] : n \in 1..MaxWords}}

Digits == {"0", "1", "2", "3", "4", "5", "6", "7", "8", "9"}

DigitValue(ch) ==
    CASE ch = "0" -> 0 [] ch = "1" -> 1 [] ch = "2" -> 2 [] ch = "3" -> 3
      [] ch = "4" -> 4 [] ch = "5" -> 5 [] ch = "6" -> 6 [] ch = "7" -> 7
      [] ch = "8" -> 8 [] ch = "9" -> 9

\* str.lower on the letters of the texts tried.
LowerChar(ch) ==
    CASE ch = "C" -> "c" [] ch = "S" -> "s" [] ch = "W" -> "w"
      [] ch = "T" -> "t" [] ch = "F" -> "f" [] ch = "N" -> "n"
      [] ch = "M" -> "m" [] ch = "Q" -> "q" [] ch = "H" -> "h"
      [] ch = "L" -> "l" [] ch = "P" -> "p" [] ch = "U" -> "u"
      [] OTHER -> ch

lower(str) == [i \in 1..Len(str) |-> LowerChar(str[i])]

\* word in str
Contains(str, word) ==
    \E i \in 1..(Len(str) - Len(word) + 1) :
        SubSeq(str, i, i + Len(word) - 1) = word

\* any(char.isdigit() for char in str)
HasDigit(str) == \E i \in 1..Len(str) : str[i] \in Digits

\* Index of the first character at or after i that is not in set, or Len + 1.
RECURSIVE SkipWhile(_, _, _)
SkipWhile(str, i, set) ==
    IF i <= Len(str) /\ str[i] \in set THEN SkipWhile(str, i + 1, set) ELSE i

\* int() of a string of decimal digits.
RECURSIVE int(_)
int(ds) ==
    IF ds = <<>> THEN 0
    ELSE 10 * int(SubSeq(ds, 1, Len(ds) - 1)) + DigitValue(ds[Len(ds)])

\* Whether course\s*(\d+) matches at position i of str.
MatchesAt(str, i) ==
    /\ i + Len(W_course) - 1 <= Len(str)
    /\ SubSeq(str, i, i + Len(W_course) - 1) = W_course
    /\ LET d == SkipWhile(str, i + Len(W_course), {" "})
       IN  d <= Len(str) /\ str[d] \in Digits

\* The same for course\s+(\d+): at least one blank is required.
MatchesAtBlank(str, i) ==
    /\ MatchesAt(str, i)
    /\ str[i + Len(W_course)] = " "

\* group(1) of the match at position i.
Group1(str, i) ==
    LET d == SkipWhile(str, i + Len(W_course), {" "})
    IN  SubSeq(str, d, SkipWhile(str, d, Digits) - 1)

\* re.search(r'course\s+(\d+)', str), a narrower pattern.
re_search_blank(str) ==
    IF \E i \in 1..Len(str) : MatchesAtBlank(str, i)
    THEN LET i == CHOOSE k \in 1..Len(str) :
                      MatchesAtBlank(str, k)
                      /\ \A m \in 1..(k - 1) : ~MatchesAtBlank(str, m)
         IN  [matched |-> TRUE, group1 |-> Group1(str, i)]
    ELSE [matched |-> FALSE, group1 |-> <<>>]

\* re.search(r'course\s*(\d+)', str): the leftmost match, or none.
re_search(str) ==
    IF \E i \in 1..Len(str) : MatchesAt(str, i)
    THEN LET i == CHOOSE k \in 1..Len(str) :
                      MatchesAt(str, k) /\ \A m \in 1..(k - 1) : ~MatchesAt(str, m)
         IN  [matched |-> TRUE, group1 |-> Group1(str, i)]
    ELSE [matched |-> FALSE, group1 |-> <<>>]

UpcomingWords == {W_upcoming, W_due, W_assignments, W_homework}
OverdueWords == {W_overdue, W_late, W_missed}

Intent(t, params) == [tool |-> t, params |-> params]

\* The course branch, which both places of parse_user_intent repeat: the
\* intent it returns, or none.
course_branch(user_input) ==
    LET user_input_lower == lower(user_input)
        course_id_match == re_search(user_input_lower)
    IN  IF Contains(user_input_lower, W_course) /\ HasDigit(user_input)
           /\ course_id_match.matched
        THEN {Intent("get_assignments_by_course",
                     {<<"course_id", int(course_id_match.group1)>>})}
        ELSE {}

parse_user_intent(user_input) ==
    LET user_input_lower == lower(user_input)
        byCourse == course_branch(user_input)
    IN  IF \E word \in UpcomingWords : Contains(user_input_lower, word)
        THEN IF byCourse # {}
             THEN CHOOSE x \in byCourse : TRUE
             ELSE Intent("get_upcoming_assignments", {})
        ELSE IF \E word \in OverdueWords : Contains(user_input_lower, word)
        THEN Intent("get_overdue_assignments", {})
        ELSE IF byCourse # {}
        THEN CHOOSE x \in byCourse : TRUE
        ELSE Intent("get_upcoming_assignments", {})

NoIntent == Intent("", {})

AgentInit ==
    /\ query = <<>>
    /\ intent = NoIntent

\* process_query parses one input line.
ParseIntent(user_input) ==
    /\ intent = NoIntent
    /\ query' = user_input
    /\ intent' = parse_user_intent(user_input)
    /\ UNCHANGED <<toolVars, requestVars, cliVars, suiteVars>>

\* run_interactive asks for the next question.
Prompt ==
    /\ intent # NoIntent
    /\ query' = <<>>
    /\ intent' = NoIntent
    /\ UNCHANGED <<toolVars, requestVars, cliVars, suiteVars>>

NextAgent ==
    \/ \E q \in Queries : ParseIntent(q)
    \/ Prompt

----------------------------------------------------------------------------
(* canvas_cli main. *)

Commands == {"list-tools", "call"}

\* The command lines tried: a command argparse accepts or not, --tool absent,
\* empty, registered or unknown, and --args texts.
CliCommands == Commands \cup {"run"}
CliTools == {NoKey, "", "no_such_tool"} \cup ToolNames
ArgTexts == {"{}", "", "{\"days_ahead\": 7}", "{days_ahead", "[7]", "null"}

\* json.loads on the texts tried: an object, another JSON value, or an error.
json_loads(text) ==
    CASE text = "{}" -> [ok |-> TRUE, object |-> TRUE, keys |-> {}]
      [] text = "{\"days_ahead\": 7}" ->
             [ok |-> TRUE, object |-> TRUE, keys |-> {"days_ahead"}]
      [] text \in {"[7]", "null"} -> [ok |-> TRUE, object |-> FALSE, keys |-> {}]
      [] OTHER -> [ok |-> FALSE, object |-> FALSE, keys |-> {}]

\* How a registered tool, once awaited, can end for the bridge.
ToolOutcomes == {"returns", "raises", "unserializable"}

CliResult(out, status, ran, exc) ==
    [stdout |-> out, exit |-> status, invoked |-> ran, raised |-> exc]

\* print(json.dumps({"success": False, "error": str(e)})); sys.exit(1)
cli_error(msg, ran, exc) ==
    CliResult([success |-> FALSE, error |-> msg], 1, ran, exc)

\* The fallback run_tool and the print of its result.
cli_run_tool(name, outcome) ==
    IF name \notin ToolNames
    THEN CliResult([success |-> FALSE, error |-> "Unknown tool"], 0, "", "")
    ELSE IF outcome = "raises"
    THEN cli_error("tool error", name, "Exception")
    ELSE IF outcome = "unserializable"
    THEN cli_error("not JSON serializable", name, "TypeError")
    ELSE CliResult([success |-> TRUE, assignments |-> <<>>], 0, name, "")

\* The 'call' command from the parsing of --args on.
cli_call(a, outcome) ==
    LET parsed == IF a.args_json = ""
                  THEN [ok |-> TRUE, object |-> TRUE, keys |-> {}]
                  ELSE json_loads(a.args_json)
    IN  IF ~parsed.ok
        THEN cli_error("Invalid --args JSON", "", "ValueError")
        ELSE IF ~parsed.object
        THEN cli_error("argument after ** must be a mapping", "", "TypeError")
        ELSE cli_run_tool(a.tool, outcome)

\* main without the test of args.tool.
cli_main_unchecked(a, outcome) ==
    IF a.command \notin Commands
    THEN CliResult(NoResponse, 2, "", "SystemExit")
    ELSE IF a.command = "list-tools"
    THEN CliResult([success |-> TRUE, data |-> "tools"], 0, "", "")
    ELSE cli_call(a, outcome)

\* main: parse_args, then the command inside try/except Exception.
cli_main(a, outcome) ==
    IF a.command \notin Commands
    THEN CliResult(NoResponse, 2, "", "SystemExit")
    ELSE IF a.command = "list-tools"
    THEN CliResult([success |-> TRUE, data |-> "tools"], 0, "", "")
    ELSE IF a.tool \in {NoKey, ""}
    THEN cli_error("--tool is required for 'call'", "", "ValueError")
    ELSE cli_call(a, outcome)

NoArgv == [command |-> "", tool |-> NoKey, args_json |-> "{}"]
NotRun == CliResult(NoResponse, -1, "", "")

CliInit ==
    /\ argv = NoArgv
    /\ cliOut = NotRun

\* One run of the bridge.
Main(a, outcome) ==
    /\ cliOut = NotRun
    /\ argv' = a
    /\ cliOut' = cli_main(a, outcome)
    /\ UNCHANGED <<toolVars, requestVars, agentVars, suiteVars>>

NextCli ==
    \E c \in CliCommands, t \in CliTools, j \in ArgTexts, o \in ToolOutcomes :
        Main([command |-> c, tool |-> t, args_json |-> j], o)

----------------------------------------------------------------------------
(* The complete suite: canvas_mcp_complete.py and canvas_mcp_additional.py. *)
(* Both import helpers (format_response, get_all_paginated_data,           *)
(* parse_date_string) and tools that canvas_mcp.py does not define, and    *)
(* canvas_cli.py falls back to the three tools when that import fails: the *)
(* suite runs only against a canvas_mcp that provides them.  They are      *)
(* modelled from their call sites and from the tests.                      *)

\* format_response(success=..., data=..., error=...), as the tests read it.
format_response(success, data, error) ==
    IF success
    THEN [success |-> TRUE, timestamp |-> "now", data |-> data]
    ELSE [success |-> FALSE, timestamp |-> "now", error |-> [message |-> error]]

NoResult == [pending |-> TRUE]

SuiteInit ==
    /\ invoked = [op |-> ""]
    /\ result = NoResult

\* The caller has the result; the next call starts afresh.
SuiteReturn ==
    /\ result # NoResult
    /\ invoked' = [op |-> ""]
    /\ result' = NoResult
    /\ UNCHANGED <<toolVars, requestVars, agentVars, cliVars>>

----------------------------------------------------------------------------
(* The tool registry of canvas_mcp_complete.py. *)

\* The words of the tests _get_tool_category makes.
Word(key) ==
    CASE key = "get" ->
             <<"g", "e", "t">>
      [] key = "assignment" ->
             <<"a", "s", "s", "i", "g", "n", "m", "e", "n", "t">>
      [] key = "schedule" ->
             <<"s", "c", "h", "e", "d", "u", "l", "e">>
      [] key = "timetable" ->
             <<"t", "i", "m", "e", "t", "a", "b", "l", "e">>
      [] key = "calculate" ->
             <<"c", "a", "l", "c", "u", "l", "a", "t", "e">>
      [] key = "grade" ->
             <<"g", "r", "a", "d", "e">>
      [] key = "content" ->
             <<"c", "o", "n", "t", "e", "n", "t">>
      [] key = "prioritize" ->
             <<"p", "r", "i", "o", "r", "i", "t", "i", "z", "e">>
      [] key = "event" ->
             <<"e", "v", "e", "n", "t">>
      [] key = "module" ->
             <<"m", "o", "d", "u", "l", "e">>
      [] key = "detect" ->
             <<"d", "e", "t", "e", "c", "t">>
      [] key = "estimate" ->
             <<"e", "s", "t", "i", "m", "a", "t", "e">>

\* A tool name from its words.
RECURSIVE Name(_)
Name(ws) ==
    IF ws = <<>> THEN <<>>
    ELSE IF Len(ws) = 1 THEN ws[1]
    ELSE ws[1] \o <<"_">> \o Name(Tail(ws))

\* The keys of ALL_TOOLS, and get_assignments_by_course, which only the
\* fallback registry of canvas_cli.py has.
ToolName(key) ==
    CASE key = "get_upcoming_assignments" ->
             <<"g", "e", "t", "_", "u", "p", "c", "o", "m", "i", "n", "g",
               "_", "a", "s", "s", "i", "g", "n", "m", "e", "n", "t", "s">>
      [] key = "get_overdue_assignments" ->
             <<"g", "e", "t", "_", "o", "v", "e", "r", "d", "u", "e", "_",
               "a", "s", "s", "i", "g", "n", "m", "e", "n", "t", "s">>
      [] key = "get_assignment_details" ->
             <<"g", "e", "t", "_", "a", "s", "s", "i", "g", "n", "m", "e",
               "n", "t", "_", "d", "e", "t", "a", "i", "l", "s">>
      [] key = "download_assignment_files" ->
             <<"d", "o", "w", "n", "l", "o", "a", "d", "_", "a", "s", "s",
               "i", "g", "n", "m", "e", "n", "t", "_", "f", "i", "l", "e",
               "s">>
      [] key = "check_submission_status" ->
             <<"c", "h", "e", "c", "k", "_", "s", "u", "b", "m", "i", "s",
               "s", "i", "o", "n", "_", "s", "t", "a", "t", "u", "s">>
      [] key = "get_upcoming_events" ->
             <<"g", "e", "t", "_", "u", "p", "c", "o", "m", "i", "n", "g",
               "_", "e", "v", "e", "n", "t", "s">>
      [] key = "find_tests_and_exams" ->
             <<"f", "i", "n", "d", "_", "t", "e", "s", "t", "s", "_", "a",
               "n", "d", "_", "e", "x", "a", "m", "s">>
      [] key = "get_todays_schedule" ->
             <<"g", "e", "t", "_", "t", "o", "d", "a", "y", "s", "_", "s",
               "c", "h", "e", "d", "u", "l", "e">>
      [] key = "get_course_timetable" ->
             <<"g", "e", "t", "_", "c", "o", "u", "r", "s", "e", "_", "t",
               "i", "m", "e", "t", "a", "b", "l", "e">>
      [] key = "identify_test_by_context" ->
             <<"i", "d", "e", "n", "t", "i", "f", "y", "_", "t", "e", "s",
               "t", "_", "b", "y", "_", "c", "o", "n", "t", "e", "x", "t">>
      [] key = "gather_study_materials" ->
             <<"g", "a", "t", "h", "e", "r", "_", "s", "t", "u", "d", "y",
               "_", "m", "a", "t", "e", "r", "i", "a", "l", "s">>
      [] key = "create_study_plan" ->
             <<"c", "r", "e", "a", "t", "e", "_", "s", "t", "u", "d", "y",
               "_", "p", "l", "a", "n">>
      [] key = "get_practice_resources" ->
             <<"g", "e", "t", "_", "p", "r", "a", "c", "t", "i", "c", "e",
               "_", "r", "e", "s", "o", "u", "r", "c", "e", "s">>
      [] key = "get_current_grades" ->
             <<"g", "e", "t", "_", "c", "u", "r", "r", "e", "n", "t", "_",
               "g", "r", "a", "d", "e", "s">>
      [] key = "calculate_grade_impact" ->
             <<"c", "a", "l", "c", "u", "l", "a", "t", "e", "_", "g", "r",
               "a", "d", "e", "_", "i", "m", "p", "a", "c", "t">>
      [] key = "get_course_modules" ->
             <<"g", "e", "t", "_", "c", "o", "u", "r", "s", "e", "_", "m",
               "o", "d", "u", "l", "e", "s">>
      [] key = "search_course_content" ->
             <<"s", "e", "a", "r", "c", "h", "_", "c", "o", "u", "r", "s",
               "e", "_", "c", "o", "n", "t", "e", "n", "t">>
      [] key = "prioritize_assignments" ->
             <<"p", "r", "i", "o", "r", "i", "t", "i", "z", "e", "_", "a",
               "s", "s", "i", "g", "n", "m", "e", "n", "t", "s">>
      [] key = "get_assignments_by_course" ->
             <<"g", "e", "t", "_", "a", "s", "s", "i", "g", "n", "m", "e",
               "n", "t", "s", "_", "b", "y", "_", "c", "o", "u", "r", "s",
               "e">>

\* ALL_TOOLS with the section comments of its literal: the keys of each
\* section, in the order of the dictionary.
RegistrySections ==
    <<[section |-> "Assignment Management",
       keys |-> <<ToolName("get_upcoming_assignments"), ToolName("get_overdue_assignments"),
                  ToolName("get_assignment_details"), ToolName("download_assignment_files"),
                  ToolName("check_submission_status")>>],
      [section |-> "Calendar & Scheduling",
       keys |-> <<ToolName("get_upcoming_events"), ToolName("find_tests_and_exams"),
                  ToolName("get_todays_schedule"), ToolName("get_course_timetable")>>],
      [section |-> "Smart Study Tools",
       keys |-> <<ToolName("identify_test_by_context"), ToolName("gather_study_materials"),
                  ToolName("create_study_plan"), ToolName("get_practice_resources")>>],
      [section |-> "Grade Analytics",
       keys |-> <<ToolName("get_current_grades"), ToolName("calculate_grade_impact")>>],
      [section |-> "Course Content Access",
       keys |-> <<ToolName("get_course_modules"), ToolName("search_course_content")>>],
      [section |-> "Smart Priority Tools",
       keys |-> <<ToolName("prioritize_assignments")>>]>>

\* list(ALL_TOOLS.keys())
ALL_TOOLS ==
    LET s == RegistrySections
    IN  s[1].keys \o s[2].keys \o s[3].keys \o s[4].keys \o s[5].keys \o s[6].keys

\* tool_name in ALL_TOOLS
InRegistry(tool_name) ==
    LET keys == ALL_TOOLS IN \E i \in 1..Len(keys) : keys[i] = tool_name

\* str.startswith
startswith(str, prefix) ==
    Len(prefix) <= Len(str) /\ SubSeq(str, 1, Len(prefix)) = prefix

\* _get_tool_category: the branches in their order.
get_tool_category(tool_name) ==
    LET get_ == Name(<<Word("get"), <<>>>>)
    IN
    IF startswith(tool_name, get_)
       /\ Contains(tool_name, Word("assignment"))
    THEN "Assignment Management"
    ELSE IF startswith(tool_name, get_)
            /\ (\/ Contains(tool_name, Word("event"))
                \/ Contains(tool_name, Word("schedule"))
                \/ Contains(tool_name, Word("timetable")))
    THEN "Calendar & Scheduling"
    ELSE IF tool_name \in {ToolName("identify_test_by_context"), ToolName("gather_study_materials"),
                           ToolName("create_study_plan"), ToolName("get_practice_resources")}
    THEN "Smart Study Tools"
    ELSE IF \/ (startswith(tool_name, get_)
                /\ Contains(tool_name, Word("grade")))
            \/ startswith(tool_name, Name(<<Word("calculate"), Word("grade")>>))
    THEN "Grade Analytics"
    ELSE IF startswith(tool_name, get_)
            /\ (Contains(tool_name, Word("module")) \/ Contains(tool_name, Word("content")))
    THEN "Course Content Access"
    ELSE IF \/ startswith(tool_name, Word("prioritize"))
            \/ startswith(tool_name, Word("detect"))
            \/ startswith(tool_name, Word("estimate"))
    THEN "Smart Priority Tools"
    ELSE "Other"

\* list_available_tools: one entry per key of ALL_TOOLS (the description
\* taken from the docstring is left out).
list_available_tools ==
    format_response(TRUE,
        LET keys == ALL_TOOLS
        IN  [total_tools |-> Len(keys),
             tools |-> [name \in {keys[i] : i \in 1..Len(keys)} |->
                           [name |-> name, category |-> get_tool_category(name)]]],
        <<>>)

\* How each tool can be called: its parameters, those without a default,
\* and whether it is a plain coroutine function (the others are what the
\* decorator of the MCP server returned).  The parameters of the tools
\* imported from canvas_mcp are those the tests and prioritize_assignments
\* pass.
Signature(tool_name) ==
    LET sig(params, required, plain) ==
            [params |-> params, required |-> required, plain |-> plain]
    IN  CASE tool_name = ToolName("identify_test_by_context") ->
                 sig({"date_context", "subject_hint"}, {"date_context"}, FALSE)
          [] tool_name = ToolName("gather_study_materials") ->
                 sig({"exam_id", "course_id", "weeks_back"},
                     {"exam_id", "course_id"}, FALSE)
          [] tool_name = ToolName("create_study_plan") ->
                 sig({"exam_date", "course_id", "hours_available"},
                     {"exam_date", "course_id"}, FALSE)
          [] tool_name = ToolName("get_practice_resources") ->
                 sig({"topic", "course_id"}, {"topic"}, FALSE)
          [] tool_name = ToolName("get_current_grades") ->
                 sig({"include_what_if"}, {}, FALSE)
          [] tool_name = ToolName("calculate_grade_impact") ->
                 sig({"assignment_id", "course_id", "hypothetical_score"},
                     {"assignment_id", "course_id"}, FALSE)
          [] tool_name = ToolName("get_course_modules") ->
                 sig({"course_id", "include_items"}, {"course_id"}, TRUE)
          [] tool_name = ToolName("search_course_content") ->
                 sig({"query", "course_id", "content_types"}, {"query"}, TRUE)
          [] tool_name = ToolName("prioritize_assignments") ->
                 sig({"strategy"}, {}, TRUE)
          [] tool_name = ToolName("get_upcoming_assignments") ->
                 sig({"days_ahead", "include_submitted"}, {}, FALSE)
          [] tool_name = ToolName("get_upcoming_events") ->
                 sig({"days_ahead"}, {}, FALSE)
          [] tool_name = ToolName("find_tests_and_exams") ->
                 sig({"search_date"}, {}, FALSE)
          [] tool_name \in {ToolName("get_assignment_details"),
                            ToolName("download_assignment_files"),
                            ToolName("check_submission_status")} ->
                 sig({"assignment_id", "course_id"},
                     {"assignment_id", "course_id"}, FALSE)
          [] OTHER -> sig({}, {}, FALSE)

\* Whether tool_func(**kwargs) binds its arguments.
Binds(tool_name, kwargs) ==
    LET signature == Signature(tool_name)
    IN  signature.required \subseteq kwargs /\ kwargs \subseteq signature.params

\* How an awaited tool can end: it returns its response (a success or a
\* failure), or raises; a decorated tool may be an object that cannot be
\* called at all.
ToolBehaviours == {"returns", "fails", "not_callable"} \cup ExceptionClasses

\* await tool_func(**kwargs)
call_tool(tool_name, kwargs, behaviour) ==
    IF behaviour = "not_callable" /\ ~Signature(tool_name).plain
    THEN [raised |-> "TypeError", value |-> <<>>, called |-> <<>>]
    ELSE IF ~Binds(tool_name, kwargs)
    THEN [raised |-> "TypeError", value |-> <<>>, called |-> <<>>]
    ELSE IF behaviour \in ExceptionClasses
    THEN [raised |-> behaviour, value |-> <<>>, called |-> tool_name]
    ELSE IF behaviour = "fails"
    THEN [raised |-> "",
          value |-> format_response(FALSE, <<>>, [text |-> "Failed"]),
          called |-> tool_name]
    ELSE [raised |-> "",
          value |-> format_response(TRUE, [tool |-> tool_name], <<>>),
          called |-> tool_name]

\* run_tool without its try/except.
run_tool_unguarded(tool_name, kwargs, behaviour) ==
    IF ~InRegistry(tool_name)
    THEN [raised |-> "",
          value |-> format_response(FALSE, <<>>,
                        [text |-> "not found", tool |-> tool_name,
                         available |-> ALL_TOOLS]),
          called |-> <<>>]
    ELSE call_tool(tool_name, kwargs, behaviour)

\* run_tool(tool_name, **kwargs)
run_tool(tool_name, kwargs, behaviour) ==
    IF ~InRegistry(tool_name)
    THEN [raised |-> "",
          value |-> format_response(FALSE, <<>>,
                        [text |-> "not found", tool |-> tool_name,
                         available |-> ALL_TOOLS]),
          called |-> <<>>]
    ELSE LET r == call_tool(tool_name, kwargs, behaviour)
         IN  IF r.raised \in ExceptionClasses
             THEN [raised |-> "",
                   value |-> format_response(FALSE, <<>>,
                                 [text |-> "Error running tool",
                                  tool |-> tool_name, cause |-> r.raised]),
                   called |-> r.called]
             ELSE r

\* One call run_tool(tool_name, **kwargs).
RunTool(tool_name, kwargs, behaviour) ==
    /\ result = NoResult
    /\ invoked' = [op |-> "run_tool", tool_name |-> tool_name,
                   kwargs |-> kwargs, behaviour |-> behaviour]
    /\ result' = run_tool(tool_name, kwargs, behaviour)
    /\ UNCHANGED <<toolVars, requestVars, agentVars, cliVars>>

\* One call list_available_tools().
ListTools ==
    /\ result = NoResult
    /\ invoked' = [op |-> "list_available_tools"]
    /\ result' = [raised |-> "", value |-> list_available_tools, called |-> <<>>]
    /\ UNCHANGED <<toolVars, requestVars, agentVars, cliVars>>

----------------------------------------------------------------------------
(* create_study_plan of canvas_mcp_additional.py. *)

\* make_canvas_request(..., cache_ttl=...) and get_all_paginated_data(...,
\* cache_ttl=...) of the canvas_mcp the suite imports: the call raises when
\* the request fails and returns the whole listing otherwise.
imported_request(http, payload) ==
    IF http = "network_error"
    THEN [raised |-> "ConnectError", value |-> <<>>]
    ELSE IF http = "status_error"
    THEN [raised |-> "HTTPStatusError", value |-> <<>>]
    ELSE [raised |-> "", value |-> payload]

\* parse_date_string: the aware datetime a date string denotes, or None
\* (the empty sequence) when it is no date.
parse_date_string(text) ==
    IF text.kind = "iso" THEN <<fromisoformat(text)>> ELSE <<>>

\* datetime.now(timezone.utc) at the instant of the call.
utc_now == [wall |-> 0, tz |-> "+00:00"]

\* What a tool of the suite returned and the API requests it had issued.
Returns(response, requests) ==
    [raised |-> "", value |-> response, requests |-> requests]

\* create_study_plan(exam_date, course_id, hours_available) when the two
\* requests end as http[1], http[2] and the server holds course and modules.
\* hours_available is <<>> for None.  A day of the schedule is represented
\* by its distance from today; the hours given to each topic are left out.
create_study_plan(exam_date, hours_available, http, course, modules) ==
    LET exam_datetime == parse_date_string(exam_date)
        failed(e, n) ==
            Returns(format_response(FALSE, <<>>,
                        [text |-> "Failed to create study plan", cause |-> e]), n)
    IN  IF exam_datetime = <<>>
        THEN Returns(format_response(FALSE, <<>>,
                         [text |-> "Invalid exam date format"]), 0)
        ELSE
        LET days_until_exam == days_between(exam_datetime[1], utc_now)
            c == imported_request(http[1], course)
            m == imported_request(http[2], modules)
            hours == IF hours_available # <<>> THEN hours_available[1]
                     ELSE IF days_until_exam >= 14 THEN 2
                     ELSE IF days_until_exam >= 7 THEN 3
                     ELSE 4
            study_topics == SelectSeq(m.value, LAMBDA module : module.name # "")
        IN  IF days_until_exam <= 0
            THEN Returns(format_response(FALSE, <<>>,
                             [text |-> "Exam date is in the past"]), 0)
            ELSE IF c.raised # "" THEN failed(c.raised, 1)
            ELSE IF m.raised # "" THEN failed(m.raised, 2)
            ELSE IF course.name = NoKey THEN failed("KeyError", 2)
            ELSE Returns(format_response(TRUE,
                     [course_name |-> course.name,
                      days_until_exam |-> days_until_exam,
                      hours_per_day |-> hours,
                      total_available_hours |-> days_until_exam * hours,
                      study_schedule |->
                          [day \in 1..days_until_exam |-> [date |-> day - 1]],
                      total_topics |-> Len(study_topics)],
                     <<>>), 2)

\* The exam dates tried, by their distance from now in hours and their zone;
\* a string that is no date.
ExamDates ==
    {Iso(h + Offset(z), z) : h \in {-30, -1, 0, 5, 23, 24, 49, 170, 340},
                             z \in {"Z", "+01:00"}} \cup {Bad}

\* One call create_study_plan(...).
CreateStudyPlan(exam_date, hours_available, http, course, modules) ==
    /\ result = NoResult
    /\ invoked' = [op |-> "create_study_plan", exam_date |-> exam_date,
                   hours_available |-> hours_available, http |-> http,
                   course |-> course]
    /\ result' = create_study_plan(exam_date, hours_available, http, course,
                                   modules)
    /\ UNCHANGED <<toolVars, requestVars, agentVars, cliVars>>

----------------------------------------------------------------------------
(* prioritize_assignments of canvas_mcp_complete.py. *)

\* Assignments get_upcoming_assignments reports at most.
MaxUpcoming == 2

\* priority_score and reasoning of one assignment under a strategy.  The
\* score is kept in quarters of a point, so that points / estimated_effort
\* stays a whole number.
priority_score(strategy, assignment, course_grades) ==
    LET points == assignment.points_possible
        days_until_due == assignment.days_until_due
        estimated_effort ==
            IF "online_upload" \in assignment.submission_types THEN 4
            ELSE IF "online_text_entry" \in assignment.submission_types THEN 2
            ELSE 1
        current_grade ==
            IF assignment.course_id \in DOMAIN course_grades
            THEN course_grades[assignment.course_id] ELSE 0
        Max(a, b) == IF a > b THEN a ELSE b
    IN  CASE strategy = "weighted" ->
                 4 * ((IF points > 50 THEN 30 ELSE IF points > 20 THEN 20 ELSE 10)
                      + (IF days_until_due <= 1 THEN 25
                         ELSE IF days_until_due <= 3 THEN 15
                         ELSE IF days_until_due <= 7 THEN 10 ELSE 0))
          [] strategy = "urgent" -> 4 * Max(0, 100 - days_until_due)
          [] strategy = "effort" -> (4 * points * 10) \div estimated_effort
          [] strategy = "risk" ->
                 4 * ((IF current_grade < 70 THEN 40
                       ELSE IF current_grade < 80 THEN 25 ELSE 10)
                      + (IF points > 50 THEN 20 ELSE 0))
          [] OTHER -> 0

\* A stable sort that puts the lowest score first.
RECURSIVE sort_ascending(_)
sort_ascending(s) ==
    IF s = <<>> THEN <<>>
    ELSE LET rest == sort_ascending(Tail(s))
         IN  SelectSeq(rest, LAMBDA y : y.priority_score < s[1].priority_score)
                 \o <<s[1]>>
                 \o SelectSeq(rest, LAMBDA y : y.priority_score >= s[1].priority_score)

\* prioritized_assignments.sort(key=lambda x: x["priority_score"],
\* reverse=True): stable, highest score first.
RECURSIVE sort_by_priority(_)
sort_by_priority(s) ==
    IF s = <<>> THEN <<>>
    ELSE LET rest == sort_by_priority(Tail(s))
         IN  SelectSeq(rest, LAMBDA y : y.priority_score > s[1].priority_score)
                 \o <<s[1]>>
                 \o SelectSeq(rest, LAMBDA y : y.priority_score <= s[1].priority_score)

\* prioritize_assignments(strategy) when get_upcoming_assignments and
\* get_current_grades end as upcoming_result and grades_result; callable
\* tells whether the decorated tools it awaits can be called.
prioritize_assignments(strategy, callable, upcoming_result, grades_result) ==
    IF ~callable
    THEN Returns(format_response(FALSE, <<>>,
                     [text |-> "Failed to prioritize assignments",
                      cause |-> "TypeError"]), 0)
    ELSE IF ~upcoming_result.success
    THEN Returns(format_response(FALSE, <<>>,
                     [text |-> "Failed to get upcoming assignments"]), 1)
    ELSE
    LET assignments == upcoming_result.data.assignments
        course_grades ==
            IF grades_result.success
            THEN grades_result.data.course_grades ELSE <<>>
        prioritized_assignments ==
            [i \in 1..Len(assignments) |->
                [priority_score |->
                     priority_score(strategy, assignments[i], course_grades)]
                    @@ assignments[i]]
        sorted == sort_by_priority(prioritized_assignments)
    IN  Returns(format_response(TRUE,
                    [strategy |-> strategy,
                     prioritized_assignments |-> sorted,
                     total_assignments |-> Len(sorted)],
                    <<>>), 2)

\* The assignments get_upcoming_assignments(days_ahead=30) may report.
UpcomingKinds ==
    [course_id : {"1"}, points_possible : {10, 60}, days_until_due : {0, 2, 30},
     submission_types : {{"online_upload"}, {}}]

\* One call prioritize_assignments(strategy).
Prioritize(strategy, callable, upcoming_result, grades_result) ==
    /\ result = NoResult
    /\ invoked' = [op |-> "prioritize_assignments", strategy |-> strategy,
                   callable |-> callable, upcoming_result |-> upcoming_result]
    /\ result' = prioritize_assignments(strategy, callable, upcoming_result,
                                        grades_result)
    /\ UNCHANGED <<toolVars, requestVars, agentVars, cliVars>>

----------------------------------------------------------------------------
(* identify_test_by_context of canvas_mcp_additional.py.  Dates are hours  *)
(* from the instant of the call; confidence is counted in tenths.          *)

\* The keywords identify_test_by_context looks for, and the date contexts,
\* titles and course names tried.
Text(key) ==
    CASE key = "thursday" ->
             <<"t", "h", "u", "r", "s", "d", "a", "y">>
      [] key = "friday" ->
             <<"f", "r", "i", "d", "a", "y">>
      [] key = "next_week" ->
             <<"n", "e", "x", "t", " ", "w", "e", "e", "k">>
      [] key = "this_week" ->
             <<"t", "h", "i", "s", " ", "w", "e", "e", "k">>
      [] key = "exam" ->
             <<"e", "x", "a", "m">>
      [] key = "test" ->
             <<"t", "e", "s", "t">>
      [] key = "quiz" ->
             <<"q", "u", "i", "z">>
      [] key = "midterm" ->
             <<"m", "i", "d", "t", "e", "r", "m">>
      [] key = "final" ->
             <<"f", "i", "n", "a", "l">>
      [] key = "assessment" ->
             <<"a", "s", "s", "e", "s", "s", "m", "e", "n", "t">>
      [] key = "calc" ->
             <<"c", "a", "l", "c">>
      [] key = "thursdays_test" ->
             <<"T", "h", "u", "r", "s", "d", "a", "y", "'", "s", " ", "t", "e", "s", "t">>
      [] key = "fridays_quiz" ->
             <<"F", "r", "i", "d", "a", "y", "'", "s", " ", "q", "u", "i", "z">>
      [] key = "next_weeks_exam" ->
             <<"N", "e", "x", "t", " ", "w", "e", "e", "k", "'", "s", " ", "e", "x", "a", "m">>
      [] key = "this_week_quiz" ->
             <<"t", "h", "i", "s", " ", "w", "e", "e", "k", " ", "q", "u", "i", "z">>
      [] key = "tomorrow" ->
             <<"t", "o", "m", "o", "r", "r", "o", "w">>
      [] key = "thursday_or_friday" ->
             <<"t", "h", "u", "r", "s", "d", "a", "y", " ", "o", "r", " ", "f", "r", "i", "d", "a", "y">>
      [] key = "friday_next_week" ->
             <<"f", "r", "i", "d", "a", "y", " ", "n", "e", "x", "t", " ", "w", "e", "e", "k">>
      [] key = "calc_final" ->
             <<"C", "a", "l", "c", " ", "f", "i", "n", "a", "l">>
      [] key = "quiz_1" ->
             <<"Q", "u", "i", "z", " ", "1">>
      [] key = "homework" ->
             <<"H", "o", "m", "e", "w", "o", "r", "k">>
      [] key = "midterm_review" ->
             <<"M", "i", "d", "t", "e", "r", "m", " ", "r", "e", "v", "i", "e", "w">>
      [] key = "lecture" ->
             <<"L", "e", "c", "t", "u", "r", "e">>
      [] key = "calc_1" ->
             <<"C", "a", "l", "c", " ", "1">>
      [] key = "physics" ->
             <<"P", "h", "y", "s", "i", "c", "s">>
      [] key = "unknown_course" ->
             <<"U", "n", "k", "n", "o", "w", "n", " ", "C", "o", "u", "r", "s", "e">>
      [] key = "quiz_notes" ->
             <<"n", "o", "t", "e", "s", " ", "f", "o", "r", " ", "t", "h", "e", " ", "q", "u", "i", "z">>

\* Courses the server lists at most.
MaxCourses == 2

\* The target date with the test 'days_ahead < 0' in place of '<= 0'.
target_date_today(date_context, weekday) ==
    LET ctx == lower(date_context)
        next(day) == IF day - weekday < 0 THEN day - weekday + 7 ELSE day - weekday
    IN  HoursPerDay *
            (IF Contains(ctx, Text("thursday")) THEN next(3)
             ELSE IF Contains(ctx, Text("friday")) THEN next(4)
             ELSE IF Contains(ctx, Text("next_week")) THEN 7
             ELSE IF Contains(ctx, Text("this_week")) THEN 3
             ELSE 7)

\* target_date - today for a date context, when today.weekday() is weekday
\* (Monday is 0).
target_date(date_context, weekday) ==
    LET ctx == lower(date_context)
        next(day) == IF day - weekday <= 0 THEN day - weekday + 7 ELSE day - weekday
    IN  HoursPerDay *
            (IF Contains(ctx, Text("thursday")) THEN next(3)
             ELSE IF Contains(ctx, Text("friday")) THEN next(4)
             ELSE IF Contains(ctx, Text("next_week")) THEN 7
             ELSE IF Contains(ctx, Text("this_week")) THEN 3
             ELSE 7)

\* The confidence without the final min(confidence, 1.0).
confidence_uncapped(type, distance, subject_hint, title_lower) ==
    LET days == distance \div HoursPerDay
    IN  (IF type = "assignment" THEN 5 ELSE 4)
        + (IF (IF days < 0 THEN -days ELSE days) <= 1 THEN 3 ELSE 0)
        + (IF subject_hint # <<>> /\ Contains(title_lower, lower(subject_hint))
           THEN 2 ELSE 0)
        + (IF type = "assignment"
              /\ \E k \in {Text("exam"), Text("midterm"), Text("final")} :
                     Contains(title_lower, k)
           THEN 2 ELSE 0)

\* confidence_score of a candidate of the given type whose date is distance
\* hours after the target date.
confidence_score(type, distance, subject_hint, title_lower) ==
    LET days == distance \div HoursPerDay
        confidence ==
            (IF type = "assignment" THEN 5 ELSE 4)
            + (IF (IF days < 0 THEN -days ELSE days) <= 1 THEN 3 ELSE 0)
            + (IF subject_hint # <<>> /\ Contains(title_lower, lower(subject_hint))
               THEN 2 ELSE 0)
            + (IF type = "assignment"
                  /\ \E k \in {Text("exam"), Text("midterm"), Text("final")} :
                         Contains(title_lower, k)
               THEN 2 ELSE 0)
    IN  Min(confidence, 10)

\* The candidates one of the two loops over a course's assignments or events
\* appends, and whether a record without a title raised KeyError in it.
scan(type, course, items, target, subject_hint) ==
    LET date(i) == parse_date_string(items[i].date)
        inWindow(i) ==
            /\ items[i].date.kind # "null"
            /\ date(i) # <<>>
            /\ target - 2 * HoursPerDay <= Instant(date(i)[1])
            /\ Instant(date(i)[1]) <= target + 2 * HoursPerDay
        raising == {i \in 1..Len(items) : inWindow(i) /\ items[i].title = NoKey}
        last == IF raising = {} THEN Len(items)
                ELSE (CHOOSE i \in raising : \A j \in raising : i <= j) - 1
        isTest(i) ==
            \E k \in {Text("exam"), Text("test"), Text("quiz"), Text("midterm"), Text("final"),
                      Text("assessment")} : Contains(lower(items[i].title), k)
        hits == SelectSeq([i \in 1..last |-> i],
                          LAMBDA i : inWindow(i) /\ isTest(i))
    IN  [raised |-> raising # {},
         out |-> [n \in 1..Len(hits) |->
                    [id |-> items[hits[n]].id, name |-> items[hits[n]].title,
                     course_name |-> course.name, type |-> type,
                     due_at |-> isoformat(date(hits[n])[1]),
                     confidence_score |->
                         confidence_score(type,
                             Instant(date(hits[n])[1]) - target, subject_hint,
                             lower(items[hits[n]].title))]]]

\* candidates.sort(key=lambda x: x['confidence_score'], reverse=True)
RECURSIVE sort_by_confidence(_)
sort_by_confidence(s) ==
    IF s = <<>> THEN <<>>
    ELSE LET rest == sort_by_confidence(Tail(s))
         IN  SelectSeq(rest, LAMBDA y : y.confidence_score > s[1].confidence_score)
                 \o <<s[1]>>
                 \o SelectSeq(rest, LAMBDA y : y.confidence_score <= s[1].confidence_score)

\* The candidates of the courses from the i-th on: a course whose requests
\* fail contributes none, and a KeyError ends the course after what it had
\* appended.
RECURSIVE candidates_from(_, _, _, _)
candidates_from(course_list, i, target, subject_hint) ==
    IF i > Len(course_list) THEN <<>>
    ELSE LET course == course_list[i]
             a == scan("assignment", course, course.assignments, target,
                       subject_hint)
             e == scan("event", course, course.events, target, subject_hint)
             found == IF course.http # "ok" THEN <<>>
                      ELSE IF a.raised THEN a.out
                      ELSE a.out \o e.out
         IN  found \o candidates_from(course_list, i + 1, target, subject_hint)

\* identify_test_by_context(date_context, subject_hint) when today.weekday()
\* is weekday, the course listing ends as http and the server holds course_list.
identify_test_by_context(date_context, subject_hint, weekday, http, course_list) ==
    LET target == target_date(date_context, weekday)
        listing == imported_request(http, course_list)
        hinted == IF subject_hint = <<>> THEN listing.value
                  ELSE SelectSeq(listing.value,
                           LAMBDA c : Contains(lower(c.name), lower(subject_hint)))
        candidates == sort_by_confidence(
                          candidates_from(hinted, 1, target, subject_hint))
    IN  IF listing.raised # ""
        THEN Returns(format_response(FALSE, <<>>,
                         [text |-> "Failed to identify test by context",
                          cause |-> listing.raised]), 1)
        ELSE Returns(format_response(TRUE,
                 [best_match |-> IF candidates # <<>> THEN <<candidates[1]>>
                                 ELSE <<>>,
                  all_candidates |-> candidates,
                  total_candidates |-> Len(candidates),
                  target_date |-> target,
                  search_window |-> [start |-> target - 2 * HoursPerDay,
                                     end |-> target + 2 * HoursPerDay]],
                 <<>>), 1 + 2 * Len(hinted))

\* What one course may hold, for a target date three days ahead: its
\* assignments and events (date is due_at or start_at) and how its requests
\* end.
CourseContents ==
    LET item(t, d) == [title |-> t, date |-> d]
        on == Iso(3 * HoursPerDay, "Z")
        edge == Iso(5 * HoursPerDay + 1, "+01:00")
        late == Iso(5 * HoursPerDay + 1, "Z")
        early == Iso(2 * HoursPerDay, "Z")
        near == Iso(3 * HoursPerDay + 1, "Z")
        holds(h, a, e) == [http |-> h, assignments |-> WithIds(a),
                           events |-> WithIds(e)]
    IN  {holds("status_error", <<>>, <<>>),
         holds("ok", <<>>, <<>>),
         holds("ok", <<item(Text("calc_final"), on)>>, <<>>),
         holds("ok", <<item(Text("quiz_1"), edge)>>,
                     <<item(Text("midterm_review"), early)>>),
         holds("ok", <<item(Text("quiz_1"), edge), item(Text("calc_final"), on)>>,
                     <<item(Text("midterm_review"), early)>>),
         holds("ok", <<item(Text("homework"), on), item(Text("quiz_1"), late)>>, <<>>),
         holds("ok", <<item(Text("quiz_1"), edge), item(NoKey, near)>>,
                     <<item(Text("midterm_review"), early)>>),
         holds("ok", <<item(Text("calc_final"), Null), item(Text("calc_final"), Bad)>>,
                     <<item(Text("lecture"), on), item(Text("midterm_review"), on)>>)}

\* The course listings tried: up to MaxCourses courses, named by position.
TestServers ==
    {[i \in 1..Len(cs) |->
         [id |-> i, name |-> IF i % 2 = 1 THEN Text("calc_1") ELSE Text("physics")]
             @@ cs[i]] : cs \in SeqsUpTo(CourseContents, MaxCourses)}

\* One call identify_test_by_context(date_context, subject_hint).
IdentifyTest(date_context, subject_hint, weekday, http, course_list) ==
    /\ result = NoResult
    /\ invoked' = [op |-> "identify_test_by_context",
                   date_context |-> date_context, subject_hint |-> subject_hint,
                   weekday |-> weekday, course_list |-> course_list]
    /\ result' = identify_test_by_context(date_context, subject_hint, weekday,
                                          http, course_list)
    /\ UNCHANGED <<toolVars, requestVars, agentVars, cliVars>>

----------------------------------------------------------------------------
(* search_course_content of canvas_mcp_complete.py. *)

\* The result lists of search_course_content, in the order the content
\* types are searched, and the name by which content_types selects each.
ContentLists ==
    <<[list |-> "assignments", type |-> "assignment"],
      [list |-> "quizzes", type |-> "quiz"],
      [list |-> "discussions", type |-> "discussion"],
      [list |-> "files", type |-> "file"],
      [list |-> "pages", type |-> "page"]>>

\* search_course_content(query, course_id, content_types) for the query
\* search_query when the course
\* listing ends as http and the server holds course_list.  course_id is <<>>
\* for None and content_types is the set of the listed types, empty for
\* None.  An item holds its title (display_name for a file; <<>> when it
\* has none), its text (description, message or body: <<>> when the value is
\* null, one string otherwise) and ratio, what fuzz.partial_ratio gives for a
\* title that does not contain the query.  The server answers 404 for an id
\* that is no course of its.
search_course_content(search_query, course_id, content_types, http, course_list) ==
    LET query_lower == lower(search_query)
        isdigit(str) == str # <<>> /\ \A i \in 1..Len(str) : str[i] \in Digits
        listing == imported_request(http, course_list)
        courses_ == IF course_id # <<>>
                    THEN <<[id |-> course_id, name |-> Text("unknown_course")]>>
                    ELSE [i \in 1..Len(listing.value) |->
                            [id |-> <<listing.value[i].id>>,
                             name |-> listing.value[i].name]]
        passes(c) == \/ course_id = <<>>
                     \/ isdigit(course_id)
                     \/ Contains(lower(c.name), lower(course_id))
        held(c) == {i \in 1..Len(course_list) :
                        IF course_id = <<>> THEN c.id = <<i>>
                        ELSE isdigit(course_id) /\ int(course_id) = i}
        serves(c) == held(c) # {} /\ course_list[CHOOSE i \in held(c) : TRUE].http = "ok"
        items(c, k) == IF serves(c)
                       THEN course_list[CHOOSE i \in held(c) : TRUE][ContentLists[k].list]
                       ELSE <<>>
        fetched(k) == content_types = {} \/ ContentLists[k].type \in content_types
        \* None.lower(): files have no text
        raises(it, k) == it.title # <<>> /\ k # 4 /\ it.text = <<>>
        matches(it, k) ==
            /\ it.title # <<>>
            /\ \/ Contains(lower(it.title), query_lower)
               \/ k # 4 /\ it.text # <<>> /\ Contains(lower(it.text[1]), query_lower)
        \* the items of list k read before one raises
        readable(c, k) ==
            LET bad == {i \in 1..Len(items(c, k)) : raises(items(c, k)[i], k)}
            IN  IF bad = {} THEN Len(items(c, k))
                ELSE (CHOOSE i \in bad : \A j \in bad : i <= j) - 1
        \* the first list whose search raises, 6 when none does
        stop(c) ==
            LET bad == {k \in 1..5 : fetched(k) /\
                            (~serves(c) \/ readable(c, k) < Len(items(c, k)))}
            IN  IF bad = {} THEN 6 ELSE CHOOSE k \in bad : \A j \in bad : k <= j
        found(c, k) ==
            IF ~passes(c) \/ ~fetched(k) \/ k > stop(c) THEN <<>>
            ELSE LET its == SubSeq(items(c, k), 1, readable(c, k))
                     hits == SelectSeq(its, LAMBDA it : matches(it, k))
                 IN  [n \in 1..Len(hits) |->
                        [id |-> hits[n].id, title |-> hits[n].title,
                         course_name |-> c.name, course_id |-> c.id,
                         relevance_score |->
                             IF Contains(lower(hits[n].title), query_lower)
                             THEN 100 ELSE hits[n].ratio]]
        RECURSIVE all(_, _)
        all(i, k) == IF i > Len(courses_) THEN <<>>
                     ELSE found(courses_[i], k) \o all(i + 1, k)
        \* sort(key=relevance_score, reverse=True): stable
        RECURSIVE sorted(_)
        sorted(s) ==
            IF s = <<>> THEN <<>>
            ELSE LET rest == sorted(Tail(s))
                 IN  SelectSeq(rest, LAMBDA y : y.relevance_score > s[1].relevance_score)
                         \o <<s[1]>>
                         \o SelectSeq(rest, LAMBDA y : y.relevance_score <= s[1].relevance_score)
        lists == [l \in {ContentLists[k].list : k \in 1..5} |->
                    sorted(all(1, CHOOSE k \in 1..5 : ContentLists[k].list = l))]
        requests(c) ==
            IF ~passes(c) THEN 0
            ELSE Cardinality({k \in 1..5 : fetched(k) /\ k <= stop(c)})
        RECURSIVE issued(_)
        issued(i) == IF i > Len(courses_) THEN 0
                     ELSE requests(courses_[i]) + issued(i + 1)
    IN  IF course_id = <<>> /\ listing.raised # ""
        THEN Returns(format_response(FALSE, <<>>,
                         [text |-> "Failed to search course content",
                          cause |-> listing.raised]), 1)
        ELSE Returns(format_response(TRUE,
                 [query |-> search_query, total_results |->
                      Len(lists.assignments) + Len(lists.quizzes)
                          + Len(lists.discussions) + Len(lists.files)
                          + Len(lists.pages)] @@ lists,
                 <<>>),
                 (IF course_id = <<>> THEN 1 ELSE 0) + issued(1))

\* What one course may hold for a search of 'quiz'.
SearchContents ==
    LET it(t, x, r) == [title |-> t, text |-> x, ratio |-> r]
        quiz == it(Text("quiz_1"), <<<<>>>>, 0)
        notes == it(Text("homework"), <<Text("quiz_notes")>>, 25)
        plain == it(Text("lecture"), <<<<>>>>, 0)
        untitled == it(<<>>, <<Text("quiz_notes")>>, 0)
        bare == it(Text("homework"), <<>>, 25)
        holds(h, a, q, d, f, p) ==
            [http |-> h, assignments |-> WithIds(a), quizzes |-> WithIds(q),
             discussions |-> WithIds(d), files |-> WithIds(f),
             pages |-> WithIds(p)]
    IN  {holds("status_error", <<>>, <<>>, <<>>, <<>>, <<>>),
         holds("ok", <<>>, <<>>, <<>>, <<>>, <<>>),
         holds("ok", <<notes, quiz>>, <<quiz>>, <<plain>>, <<quiz>>, <<notes>>),
         holds("ok", <<untitled>>, <<>>, <<notes, quiz>>, <<plain>>, <<quiz>>),
         holds("ok", <<quiz, bare>>, <<quiz>>, <<>>, <<>>, <<>>)}

\* One call search_course_content(query, course_id, content_types).
SearchContent(search_query, course_id, content_types, http, course_list) ==
    /\ result = NoResult
    /\ invoked' = [op |-> "search_course_content", query |-> search_query,
                   course_id |-> course_id, content_types |-> content_types,
                   course_list |-> course_list]
    /\ result' = search_course_content(search_query, course_id, content_types, http,
                                       course_list)
    /\ UNCHANGED <<toolVars, requestVars, agentVars, cliVars>>

----------------------------------------------------------------------------
(* calculate_grade_impact and the letter grades of get_current_grades     *)
(* (canvas_mcp_additional.py).  Points are kept in hundredths of a point   *)
(* and scores in hundredths of a percent.                                  *)

\* The letter grade get_current_grades gives a current_score (in percent).
letter_grade(current_score) ==
    IF current_score >= 97 THEN "A+"
    ELSE IF current_score >= 93 THEN "A"
    ELSE IF current_score >= 90 THEN "A-"
    ELSE IF current_score >= 87 THEN "B+"
    ELSE IF current_score >= 83 THEN "B"
    ELSE IF current_score >= 80 THEN "B-"
    ELSE IF current_score >= 77 THEN "C+"
    ELSE IF current_score >= 73 THEN "C"
    ELSE IF current_score >= 70 THEN "C-"
    ELSE IF current_score >= 67 THEN "D+"
    ELSE IF current_score >= 63 THEN "D"
    ELSE IF current_score >= 60 THEN "D-"
    ELSE "F"

letter_grade_thresholds ==
    [g \in {"A", "A-", "B+", "B", "B-", "C+", "C", "C-", "D+", "D", "D-"} |->
        CASE g = "A" -> 93 [] g = "A-" -> 90 [] g = "B+" -> 87 [] g = "B" -> 83
          [] g = "B-" -> 80 [] g = "C+" -> 77 [] g = "C" -> 73 [] g = "C-" -> 70
          [] g = "D+" -> 67 [] g = "D" -> 63 [] g = "D-" -> 60]

\* calculate_grade_impact(assignment_id, course_id, hypothetical_score) when
\* the two requests end as http[1], http[2] and return assignment (points,
\* score and submitted of its submission, in points) and enrollment (a list
\* of at most one record with the grades current_score, current_points and
\* possible_points).  The assignment carries its name.  hypothetical_score
\* is <<>> for None.  round() goes to
\* the nearest; half_up tells on which side the binary value of a decimal
\* tie lies.
calculate_grade_impact(hypothetical_score, http, assignment, enrollment, half_up) ==
    LET \* round(num / den) for den > 0
        round_(num, den) ==
            LET q == num \div den
                r == num % den
            IN  IF 2 * r > den \/ (2 * r = den /\ half_up) THEN q + 1 ELSE q
        first == imported_request(http[1], assignment)
        second == imported_request(http[2], enrollment)
        grades == second.value[1]
        current_score == 100 * grades.current_score
        current_points == 100 * grades.current_points
        possible_points == 100 * grades.possible_points
        assignment_points == 100 * assignment.points
        current_assignment_score == 100 * assignment.score
        counted == current_assignment_score # 0
        new_points_possible == IF counted THEN possible_points
                               ELSE possible_points + assignment_points
        scenario(points) ==
            LET new_points_earned ==
                    IF counted
                    THEN current_points - current_assignment_score + points
                    ELSE current_points + points
                new_score == IF new_points_possible > 0
                             THEN round_(100 * 100 * new_points_earned,
                                         new_points_possible)
                             ELSE 0
            IN  [score |-> new_score, points_earned |-> new_points_earned,
                 points_possible |-> new_points_possible,
                 change |-> new_score - current_score]
        scenarios ==
            [current |-> [score |-> current_score,
                          points_earned |-> current_points,
                          points_possible |-> possible_points,
                          submitted |-> counted \/ assignment.submitted],
             perfect_score |-> scenario(assignment_points),
             zero_score |-> scenario(0),
             hypothetical |->
                 IF hypothetical_score = <<>> THEN <<>>
                 ELSE <<scenario(hypothetical_score[1] * assignment.points)>>]
        \* target_points - (current_points - current_assignment_score)
        min_assignment_score(grade) ==
            letter_grade_thresholds[grade] * (new_points_possible \div 100)
                - (current_points - current_assignment_score)
        listed == {grade \in DOMAIN letter_grade_thresholds :
                      \/ assignment_points = 0
                      \/ /\ 0 <= min_assignment_score(grade)
                         /\ min_assignment_score(grade) <= assignment_points}
        minimum_scores ==
            [grade \in listed |->
                [minimum_percentage |->
                     IF assignment_points > 0
                     THEN round_(10 * 100 * min_assignment_score(grade),
                                 assignment_points)
                     ELSE 0,
                 minimum_points |-> 10 * round_(min_assignment_score(grade), 10)]]
    IN  IF first.raised # "" \/ second.raised # ""
        THEN Returns(format_response(FALSE, <<>>,
                         [text |-> "Failed to calculate grade impact",
                          cause |-> IF first.raised # "" THEN first.raised
                                    ELSE second.raised]),
                     IF first.raised # "" THEN 1 ELSE 2)
        ELSE IF enrollment = <<>>
        THEN Returns(format_response(FALSE, <<>>,
                         [text |-> "No enrollment found for this course"]), 2)
        ELSE Returns(format_response(TRUE,
                 [assignment_info |-> [points_possible |-> assignment_points,
                                       current_score |-> current_assignment_score,
                                       submitted |-> assignment.submitted],
                  current_grade |-> [score |-> current_score,
                                     points_earned |-> current_points,
                                     points_possible |-> possible_points],
                  scenarios |-> scenarios,
                  minimum_scores_for_letter_grades |-> minimum_scores],
                 <<>>), 2)

\* One call calculate_grade_impact(assignment_id, course_id, hypothetical_score).
GradeImpact(hypothetical_score, http, assignment, enrollment, half_up) ==
    /\ result = NoResult
    /\ invoked' = [op |-> "calculate_grade_impact",
                   hypothetical_score |-> hypothetical_score,
                   assignment |-> assignment, enrollment |-> enrollment]
    /\ result' = calculate_grade_impact(hypothetical_score, http, assignment,
                                        enrollment, half_up)
    /\ UNCHANGED <<toolVars, requestVars, agentVars, cliVars>>

----------------------------------------------------------------------------
(* The calls of the complete suite that are tried; a call starts when the *)
(* previous one has returned.                                            *)

NextSuite ==
    \/ /\ result = NoResult
       /\ \E n \in LET keys == ALL_TOOLS
                      IN  {keys[i] : i \in 1..Len(keys)}
                              \cup {ToolName("get_assignments_by_course"), <<"x">>, <<>>},
                kw \in {{}, {"course_id"}, {"strategy"}, {"query", "course_id"},
                        {"no_such_argument"}},
                b \in ToolBehaviours : RunTool(n, kw, b)
    \/ ListTools
    \/ /\ result = NoResult
       /\ \E e \in ExamDates, h \in {<<>>, <<1>>},
                http \in HttpOutcomes \X HttpOutcomes,
                c \in {[name |-> "CS"], [name |-> NoKey]},
                m \in {<<>>, <<[name |-> "", items |-> 0],
                               [name |-> "Week 1", items |-> 2]>>} :
                CreateStudyPlan(e, h, http, c, m)
    \/ /\ result = NoResult
       /\ \E strategy \in {"weighted", "urgent", "effort", "risk", "none"},
                callable \in BOOLEAN,
                upcoming \in {format_response(FALSE, <<>>, [text |-> "Failed"])}
                                \cup {format_response(TRUE,
                                          [assignments |-> WithIds(l)], <<>>) :
                                      l \in SeqsUpTo(UpcomingKinds, MaxUpcoming)},
                grades \in {format_response(FALSE, <<>>, [text |-> "Failed"])}
                              \cup {format_response(TRUE,
                                        [course_grades |-> [c \in {"1"} |-> g]], <<>>) :
                                    g \in {65, 85}} :
                Prioritize(strategy, callable, upcoming, grades)
    \/ /\ result = NoResult
       /\ \E ctx \in {Text("thursdays_test"), Text("fridays_quiz"), Text("next_weeks_exam"),
                           Text("this_week_quiz"), Text("tomorrow"), Text("thursday_or_friday"),
                           Text("friday_next_week")},
                hint \in {<<>>, Text("calc")}, weekday \in 0..6,
                http \in HttpOutcomes :
                IdentifyTest(ctx, hint, weekday, http, <<>>)
    \/ /\ result = NoResult
       /\ \E hint \in {<<>>, Text("calc")}, weekday \in 0..6, held \in TestServers :
                IdentifyTest(Text("this_week_quiz"), hint, weekday, "ok", held)
    \/ /\ result = NoResult
       /\ \E course_id \in {<<>>, <<"1">>, <<"2">>, <<"3">>, Text("calc")},
                types \in {{}, {"quiz"}, {"assignment", "page"}},
                http \in HttpOutcomes,
                held \in {[i \in 1..Len(cs) |->
                              [id |-> i, name |-> IF i % 2 = 1 THEN Text("calc_1")
                                                  ELSE Text("physics")] @@ cs[i]] :
                          cs \in SeqsUpTo(SearchContents, MaxCourses)} :
                SearchContent(Text("quiz"), course_id, types, http, held)
    \/ /\ result = NoResult
       /\ \E hyp \in {<<>>, <<50>>}, http \in HttpOutcomes \X HttpOutcomes,
                a \in [points : {0, 7, 40}, score : {0, 5}, submitted : BOOLEAN],
                e \in {<<>>}
                        \cup {<<[current_score |-> g[1], current_points |-> g[2],
                                 possible_points |-> g[3]]>> :
                              g \in {<<0, 0, 0>>, <<80, 20, 25>>, <<90, 54, 60>>}},
                half_up \in BOOLEAN :
                GradeImpact(hyp, http, a, e, half_up)
    \/ SuiteReturn

----------------------------------------------------------------------------
(* The specifications. *)

Init ==
    /\ apiKey \in BOOLEAN
    /\ localOff \in LocalOffsets
    /\ ToolIdle /\ RequestInit /\ AgentInit /\ CliInit /\ SuiteInit

Next ==
    \/ \E t \in ToolNames, d \in 0..MaxDaysAhead, c \in CourseIdArgs : Call(t, d, c)
    \/ \E http \in HttpOutcomes :
           \E full \in Answers(http, CourseListings) : FetchCourses(http, full)
    \/ \E http \in HttpOutcomes :
           \E full \in Answers(http, AssignmentListings) : CourseStep(http, full)
    \/ Finish
    \/ \E http \in HttpOutcomes, name \in {"CS", NoKey} : FetchCourse(http, name)
    \/ \E http \in HttpOutcomes :
           \E full \in Answers(http, AssignmentListings) : FetchAssignments(http, full)
    \/ Return

Spec == Init /\ [][Next]_vars

\* The request helper alone.
InitRequest ==
    /\ apiKey \in BOOLEAN
    /\ localOff = 0
    /\ ToolIdle /\ RequestInit /\ AgentInit /\ CliInit /\ SuiteInit

SpecRequest == InitRequest /\ [][NextRequest]_vars

\* The agent's parser and the bridge, each alone.
InitFrontEnd ==
    /\ apiKey = TRUE
    /\ localOff = 0
    /\ ToolIdle /\ RequestInit /\ AgentInit /\ CliInit /\ SuiteInit

SpecAgent == InitFrontEnd /\ [][NextAgent]_vars

SpecCli == InitFrontEnd /\ [][NextCli]_vars

\* The tools of the complete suite.
SpecSuite == InitFrontEnd /\ [][NextSuite]_vars

----------------------------------------------------------------------------
(* Properties of the three tools. *)

Returned == pc = "done"
Succeeded == Returned /\ "success" \in DOMAIN resp /\ resp.success

\* The failures that end a call; "course_fetch_status", the HTTP error status
\* of one course's assignments request in the two looping tools, does not.
FatalFaults ==
    {"missing_api_key", "course_listing", "course_fetch", "malformed_record"}

\* The instants of the window [now, now + days_ahead days]; now is hour 0.
InWindow(instant) == 0 <= instant /\ instant <= daysAhead * HoursPerDay

C2_ResponseShape ==
    Returned =>
        /\ {"success", "timestamp"} \subseteq DOMAIN resp
        /\ resp.success => "data" \in DOMAIN resp
        /\ ~resp.success => "error" \in DOMAIN resp

\* C3: every assignment get_upcoming_assignments or get_assignments_by_course
\* returns is due at an instant d with now <= d <= now + days_ahead days.
C3_UpcomingWithinWindow ==
    (Succeeded /\ tool \in {"get_upcoming_assignments", "get_assignments_by_course"}) =>
        \A i \in 1..Len(resp.assignments) :
            InWindow(Instant(resp.assignments[i].due_date))

\* Whether the response lists assignment a of course c.
Listed(c, a) ==
    \E i \in 1..Len(resp.assignments) :
        /\ resp.assignments[i].course_id = c
        /\ resp.assignments[i].assignment_id = a.id

\* Whether a record the server holds qualifies for the running tool.
Qualifies(a) ==
    /\ a.due_at.kind = "iso"
    /\ IF tool = "get_overdue_assignments"
       THEN Instant(fromisoformat(a.due_at)) < 0
       ELSE InWindow(Instant(fromisoformat(a.due_at)))

\* C4: get_upcoming_assignments and get_overdue_assignments consider every
\* course and every assignment the server holds: no course and no qualifying
\* assignment is left out because it lies beyond a first page.
C4_PaginatedToCompletion ==
    (Succeeded /\ tool \in {"get_upcoming_assignments", "get_overdue_assignments"}) =>
        /\ unseenCourses = <<>>
        /\ \A k \in 1..Len(unseen) :
               Qualifies(unseen[k].a) => Listed(unseen[k].course_id, unseen[k].a)

\* C6: every assignment get_overdue_assignments returns was due strictly
\* before the instant of the call, and its days_overdue is not negative.
C6_OverdueIsPast ==
    (Succeeded /\ tool = "get_overdue_assignments") =>
        \A i \in 1..Len(resp.assignments) :
            /\ Instant(resp.assignments[i].due_date) < 0
            /\ resp.assignments[i].days_overdue >= 0

\* C7: in every successful response the assignments are in the order of
\* their due instants.
C7_SortedByDueInstant ==
    Succeeded =>
        \A i \in 1..(Len(resp.assignments) - 1) :
            Instant(resp.assignments[i].due_date)
                <= Instant(resp.assignments[i + 1].due_date)

----------------------------------------------------------------------------
(* Properties of the request helper. *)

\* C5: the request helper accepts cache_ttl, and of two requests for the
\* same endpoint made with cache_ttl less than that many seconds apart only
\* the first queries the API.
C5_CacheTtlAcceptedAndReused ==
    /\ "cache_ttl" \in lastCall.kw => lastCall.raised # "TypeError"
    /\ \A i, j \in 1..Len(httpLog) :
           (/\ i < j
            /\ httpLog[i].endpoint = httpLog[j].endpoint
            /\ httpLog[i].cached /\ httpLog[j].cached)
               => httpLog[j].at - httpLog[i].at >= CacheTtl

----------------------------------------------------------------------------
(* Properties of the intent parser. *)

Parsed == intent # NoIntent

\* Where "course" occurs in str.
CoursePositions(str) ==
    {i \in 1..(Len(str) - Len(W_course) + 1) :
        SubSeq(str, i, i + Len(W_course) - 1) = W_course}

\* The pairs <<i, n>> such that, at position i of str, "course" is followed
\* by blanks and then by the digit string of n (taken whole).
CourseMentions(str) ==
    UNION {
        {<<i, int(SubSeq(str, r[1], r[2]))>> :
            r \in {x \in ((i + Len(W_course))..Len(str)) \X (1..Len(str)) :
                     /\ x[1] <= x[2]
                     /\ \A k \in (i + Len(W_course))..(x[1] - 1) : str[k] = " "
                     /\ \A k \in x[1]..x[2] : str[k] \in Digits
                     /\ x[2] < Len(str) => str[x[2] + 1] \notin Digits}}
        : i \in CoursePositions(str)}

\* The number of the leftmost mention.
FirstMention(str) ==
    LET ms == CourseMentions(str)
        m == CHOOSE x \in ms : \A y \in ms : x[1] <= y[1]
    IN  m[2]

\* C8: a query that contains 'overdue', 'late' or 'missed' is routed to
\* get_overdue_assignments.
C8_OverdueWordsRouted ==
    (Parsed /\ \E w \in {W_overdue, W_late, W_missed} : Contains(lower(query), w))
        => intent.tool = "get_overdue_assignments"

\* C9 as stated: a query that mentions a course number is routed to
\* get_assignments_by_course with that number, whatever else it contains.
C9_CourseAlwaysRouted ==
    (Parsed /\ CourseMentions(lower(query)) # {})
        => intent = Intent("get_assignments_by_course",
                           {<<"course_id", FirstMention(lower(query))>>})

\* A query with 'late' or 'missed' and none of 'upcoming', 'due',
\* 'assignments', 'homework'.
OnlyOverdueWords(str) ==
    /\ \E w \in {W_late, W_missed} : Contains(str, w)
    /\ \A w \in {W_upcoming, W_due, W_assignments, W_homework} : ~Contains(str, w)

\* C9 as amended: a query that mentions a course number is routed to
\* get_assignments_by_course with the number of the leftmost mention, unless
\* it contains 'late' or 'missed' and none of 'upcoming', 'due',
\* 'assignments', 'homework'; such a query is routed to
\* get_overdue_assignments.
C9_CourseRoutedUnlessOverdue ==
    (Parsed /\ CourseMentions(lower(query)) # {})
        => IF OnlyOverdueWords(lower(query))
           THEN intent = Intent("get_overdue_assignments", {})
           ELSE intent = Intent("get_assignments_by_course",
                                {<<"course_id", FirstMention(lower(query))>>})

\* C9 witness: the example of run_interactive is routed to course 12345.
C9_ExampleRouted ==
    /\ query = ExampleCourse
    /\ intent = Intent("get_assignments_by_course", {<<"course_id", 12345>>})

----------------------------------------------------------------------------
(* Properties of the command-line bridge. *)

HasRun == cliOut # NotRun

\* The --args texts that are no JSON.
InvalidJsonTexts == {"{days_ahead"}

\* The JSON error object was printed and the exit status is 1.
ErrorExit ==
    /\ cliOut.exit = 1
    /\ DOMAIN cliOut.stdout = {"success", "error"}
    /\ ~cliOut.stdout.success

\* C10: 'call' without --tool and 'call' with --args that is no JSON print
\* the JSON error object and exit with status 1 without running a tool, and
\* so does every exception raised while the command is handled.
C10_CliErrorsExitOne ==
    HasRun =>
        /\ (/\ argv.command = "call"
            /\ argv.tool = NoKey \/ argv.args_json \in InvalidJsonTexts)
               => ErrorExit /\ cliOut.invoked = ""
        /\ cliOut.raised \notin {"", "SystemExit"} => ErrorExit

\* C10 witness: 'call' of a registered tool with --args that is no JSON.
C10_InvalidJsonRejected ==
    /\ argv.command = "call"
    /\ argv.tool \in ToolNames
    /\ argv.args_json \in InvalidJsonTexts
    /\ ErrorExit
    /\ cliOut.invoked = ""

----------------------------------------------------------------------------
(* Properties of the complete suite. *)

\* A call of operation op has returned or raised.
Ran(op) == result # NoResult /\ invoked.op = op

\* C11: run_tool never raises; for a name that is no key of ALL_TOOLS it
\* returns a failure response that names the available tools and calls no
\* tool, and when the selected tool raises, or is called with arguments it
\* does not accept, it returns the failure response 'Error running tool'.
C11_RunToolNeverRaises ==
    Ran("run_tool") =>
        /\ result.raised = ""
        /\ ~InRegistry(invoked.tool_name) =>
               /\ ~result.value.success
               /\ result.value.error.message.text = "not found"
               /\ result.value.error.message.available = ALL_TOOLS
               /\ result.called = <<>>
        /\ (/\ InRegistry(invoked.tool_name)
            /\ \/ invoked.behaviour \in ExceptionClasses
               \/ ~Binds(invoked.tool_name, invoked.kwargs))
               => /\ ~result.value.success
                  /\ result.value.error.message.text = "Error running tool"
                  /\ result.value.error.message.tool = invoked.tool_name

\* C11 witness: prioritize_assignments called with a keyword it does not
\* declare; the TypeError of the call is reported and its body never ran.
C11_BadArgumentsReported ==
    /\ Ran("run_tool")
    /\ invoked.tool_name = ToolName("prioritize_assignments")
    /\ invoked.kwargs = {"no_such_argument"}
    /\ invoked.behaviour = "returns"
    /\ ~result.value.success
    /\ result.value.error.message.cause = "TypeError"
    /\ result.called = <<>>

\* C17: list_available_tools reports every registered tool under the
\* category of the section in which ALL_TOOLS lists it, none under 'Other',
\* and total_tools is the number of entries of tools.
C17_CategoryIsSection ==
    Ran("list_available_tools") =>
        LET data == result.value.data
        IN  /\ \A s \in 1..Len(RegistrySections) :
                   \A k \in 1..Len(RegistrySections[s].keys) :
                       data.tools[RegistrySections[s].keys[k]].category
                           = RegistrySections[s].section
            /\ \A n \in DOMAIN data.tools : data.tools[n].category # "Other"
            /\ data.total_tools = Cardinality(DOMAIN data.tools)

\* C12: create_study_plan fails with 'Exam date is in the past', before any
\* API request, if and only if the parsed exam date is not later than the
\* instant of the call; a later exam date, even one a few hours ahead, is
\* accepted and planned when the requests succeed.
C12_PastIffNotLater ==
    (Ran("create_study_plan") /\ invoked.exam_date.kind = "iso") =>
        LET exam == Instant(fromisoformat(invoked.exam_date))
            past == /\ ~result.value.success
                    /\ result.value.error.message
                           = [text |-> "Exam date is in the past"]
        IN  /\ past <=> exam <= 0
            /\ past => result.requests = 0
            /\ (exam > 0 /\ invoked.http = <<"ok", "ok">>
                         /\ invoked.course.name # NoKey)
                   => /\ result.value.success
                      /\ result.value.data.study_schedule # <<>>

Identified == Ran("identify_test_by_context") /\ result.value.success

\* C14: best_match is a candidate whose confidence_score is maximal among
\* all_candidates and is null exactly when there is no candidate; every
\* candidate's confidence_score lies in [0, 1], its date lies within two
\* days of the target date, and its title contains a test keyword.
C14_BestMatchIsMaximal ==
    Identified =>
        LET data == result.value.data
            all == data.all_candidates
        IN  /\ data.best_match = <<>> <=> all = <<>>
            /\ data.best_match # <<>> =>
                   /\ \E i \in 1..Len(all) : all[i] = data.best_match[1]
                   /\ \A i \in 1..Len(all) :
                          all[i].confidence_score
                              <= data.best_match[1].confidence_score
            /\ \A i \in 1..Len(all) :
                   /\ 0 <= all[i].confidence_score
                   /\ all[i].confidence_score <= 10
                   /\ Instant(all[i].due_at) - data.target_date <= 2 * HoursPerDay
                   /\ data.target_date - Instant(all[i].due_at) <= 2 * HoursPerDay
                   /\ \E k \in {Text("exam"), Text("test"), Text("quiz"), Text("midterm"),
                                Text("final"), Text("assessment")} :
                          Contains(lower(all[i].name), k)

\* C14 witness: with the hint 'calc', the final found after a quiz collects
\* every boost, is capped at 1.0 and is the best match, ahead of the quiz
\* and of the review.
C14_CappedBestMatch ==
    /\ Identified
    /\ invoked.subject_hint = Text("calc")
    /\ Len(result.value.data.all_candidates) = 3
    /\ result.value.data.best_match[1].name = Text("calc_final")
    /\ result.value.data.best_match[1].confidence_score = 10
    /\ result.value.data.best_match[1].id = 2
    /\ result.value.data.all_candidates[2].confidence_score = 7
    /\ result.value.data.all_candidates[3].confidence_score = 5

\* The days from a day whose weekday is wd to the next day, strictly later,
\* whose weekday is day.
DaysToNext(wd, day) == CHOOSE d \in 1..7 : (wd + d) % 7 = day

\* The search window is target - 2 days to target + 2 days.
WindowAroundTarget ==
    /\ result.value.data.search_window.start
           = result.value.data.target_date - 2 * HoursPerDay
    /\ result.value.data.search_window.end
           = result.value.data.target_date + 2 * HoursPerDay

\* C15 as stated: a context containing 'thursday' (resp. 'friday') gives the
\* next Thursday (resp. Friday) strictly after today, 'next week' gives
\* today + 7 days, 'this week' today + 3 days, any other context today + 7
\* days; the window is target - 2 days to target + 2 days.
C15_TargetByKeyword ==
    Identified =>
        LET ctx == lower(invoked.date_context)
            target == result.value.data.target_date
            has(k) == Contains(ctx, k)
        IN  /\ has(Text("thursday")) =>
                   target = HoursPerDay * DaysToNext(invoked.weekday, 3)
            /\ has(Text("friday")) =>
                   target = HoursPerDay * DaysToNext(invoked.weekday, 4)
            /\ has(Text("next_week")) => target = HoursPerDay * 7
            /\ has(Text("this_week")) => target = HoursPerDay * 3
            /\ ~(has(Text("thursday")) \/ has(Text("friday")) \/ has(Text("next_week"))
                    \/ has(Text("this_week"))) => target = HoursPerDay * 7
            /\ WindowAroundTarget

\* C15 as amended: the first of 'thursday', 'friday', 'next week', 'this
\* week' that the context contains, in this order, decides the target: the
\* next Thursday, the next Friday (each 1 to 7 days ahead, 7 when today is
\* that weekday), today + 7 days, today + 3 days; a context with none of
\* them gives today + 7 days, and the window is target - 2 days to
\* target + 2 days.
C15_TargetByPrecedence ==
    Identified =>
        LET ctx == lower(invoked.date_context)
            has(k) == Contains(ctx, k)
        IN  /\ result.value.data.target_date
                   = HoursPerDay *
                       (IF has(Text("thursday")) THEN DaysToNext(invoked.weekday, 3)
                        ELSE IF has(Text("friday")) THEN DaysToNext(invoked.weekday, 4)
                        ELSE IF has(Text("next_week")) THEN 7
                        ELSE IF has(Text("this_week")) THEN 3
                        ELSE 7)
            /\ WindowAroundTarget

\* C15 witness: "Thursday's test" asked on a Thursday targets the Thursday
\* seven days ahead.
C15_ThursdayOnThursday ==
    /\ Identified
    /\ invoked.date_context = Text("thursdays_test")
    /\ invoked.weekday = 3
    /\ result.value.data.target_date = 7 * HoursPerDay


\* C16 (as stated): a successful search_course_content lists, for every
\* content type that is fetched, every titled item of every searched
\* course that the server serves whose title or text contains the query,
\* and nothing else; the searched courses are all courses without a
\* course_id, the course of that id for a numeric course_id and the courses
\* whose name contains course_id otherwise; a type that content_types
\* leaves out stays empty.
C16_SearchCoversContent ==
    Ran("search_course_content") /\ result.value.success =>
        LET held == invoked.course_list
            cid == invoked.course_id
            numeric == cid # <<>> /\ \A i \in 1..Len(cid) : cid[i] \in Digits
            searched == {i \in 1..Len(held) :
                            /\ held[i].http = "ok"
                            /\ \/ cid = <<>>
                               \/ numeric /\ int(cid) = i
                               \/ ~numeric /\ Contains(lower(held[i].name), lower(cid))}
            fetched(k) == \/ invoked.content_types = {}
                          \/ ContentLists[k].type \in invoked.content_types
            hit(it, k) ==
                /\ it.title # <<>>
                /\ \/ Contains(lower(it.title), lower(invoked.query))
                   \/ /\ k # 4
                      /\ it.text # <<>>
                      /\ Contains(lower(it.text[1]), lower(invoked.query))
            listed(k) == result.value.data[ContentLists[k].list]
            wanted(k) == {<<i, held[i][ContentLists[k].list][j].id>> :
                             <<i, j>> \in {p \in (1..Len(held)) \X (1..MaxListing) :
                                 /\ p[1] \in searched
                                 /\ p[2] <= Len(held[p[1]][ContentLists[k].list])
                                 /\ hit(held[p[1]][ContentLists[k].list][p[2]], k)}}
            given(k) == {<<IF cid = <<>> THEN listed(k)[n].course_id[1] ELSE int(cid),
                           listed(k)[n].id>> : n \in 1..Len(listed(k))}
        IN  \A k \in 1..5 :
                IF fetched(k) THEN given(k) = wanted(k) ELSE listed(k) = <<>>


LoopStep == pc = "loop" /\ idx <= Len(courses) /\ vars' # vars

\* C19 (as stated): in the two looping tools no failure of a course's
\* assignments request ends the call; it goes on to the next course with
\* what it had collected.
C19_AnyFailureSkipped ==
    [][LoopStep /\ faults' \ faults \subseteq {"course_fetch", "course_fetch_status"}
           /\ faults' # faults
         => pc' = "loop" /\ idx' = idx + 1 /\ collected' = collected]_vars

\* C19 (amended): a course without a name and a course whose assignments
\* request ends with an HTTP error status are skipped, the loop going on to
\* the next course with what it had collected; any other failure of that
\* request ends the call with success = false and no assignments; and after
\* the last course the call succeeds with what was collected, sorted.
C19_StatusErrorSkipped ==
    [][/\ LoopStep /\ (courses[idx].name = ""
                         \/ "course_fetch_status" \in faults' \ faults)
          => pc' = "loop" /\ idx' = idx + 1 /\ collected' = collected
                /\ resp' = resp
       /\ LoopStep /\ "course_fetch" \in faults' \ faults
          => pc' = "done" /\ ~resp'.success /\ resp'.assignments = <<>>
       /\ pc = "loop" /\ idx > Len(courses) /\ vars' # vars
          => /\ pc' = "done"
             /\ resp'.success
             /\ resp'.assignments = sort_by_due_date(collected)]_vars

\* C19 witness: the first of two named courses gave an assignment, the request
\* of the second ended with an error status, and the successful response
\* carries that assignment.
C19_KeptAfterSkip ==
    /\ Succeeded
    /\ tool \in {"get_upcoming_assignments", "get_overdue_assignments"}
    /\ faults = {"course_fetch_status"}
    /\ Len(courses) = 2
    /\ courses[2].name # ""
    /\ Len(resp.assignments) = 1
    /\ resp.assignments[1].course_id = courses[1].id

====
